---- MODULE Spec2Model ----
(***************************************************************************)
(* Model of NerRobDog/Notion_API:                                          *)
(*   - the cursor pagination drivers of notion_client/helpers.py           *)
(*     (iterate_paginated_api and async_iterate_paginated_api), run        *)
(*     against the same paginated function;                                *)
(*   - the DatabaseQuery session of notion_sugar/functional/crud.py on top *)
(*     of Client.request of notion_client/client.py;                       *)
(*   - the Page and Database class decorators of                           *)
(*     notion_sugar/core/decorators.py;                                    *)
(*   - NotionSugar of notion_sugar/core/client.py with the validators of   *)
(*     notion_client/helpers.py;                                           *)
(*   - the stack of HTTP clients of Client/AsyncClient                     *)
(*     (notion_client/client.py).                                          *)
(***************************************************************************)
EXTENDS Integers, Sequences, FiniteSets, TLC

VARIABLES
    \* ---- pagination (helpers.py) ----
    start,       \* the caller's start_cursor keyword (None by default)
    served,      \* the responses the paginated function has given, by call number
    pc,          \* per driver: position of the generator
    calls,       \* per driver: the start_cursor argument of every call made
    next_cursor, \* per driver: the local variable next_cursor
    idx,         \* per driver: index of the next result of the current response
    emitted,     \* per driver: the results yielded to the consumer, in order
    pagesDone,   \* per driver: responses whose for-loop has run to its end
    \* ---- DatabaseQuery session (crud.py) ----
    phase,       \* "new" before DatabaseQuery(...) is constructed, then "ready"
    schema,      \* self.schema: property name -> definition
    fetchOk,     \* did the describe-database call of __init__ succeed
    last,        \* record of the last call made on the session
    \* ---- decorated classes (decorators.py) ----
    made,        \* the last construction of a decorated class and its outcome
    \* ---- NotionSugar (core/client.py) ----
    sugar,       \* the NotionSugar object: auth_token, client, or what it raised
    session,     \* the outcome of the last db(database_id) call
    \* ---- Client / AsyncClient (notion_client/client.py) ----
    self_options, \* self.options together with the class of self
    _clients,    \* self._clients: the HTTP clients, the active one last
    contexts,    \* the open with-blocks on the client, outermost first
    created      \* how many HTTP clients have been made for the client

pagVars == <<start, served, pc, calls, next_cursor, idx, emitted, pagesDone>>
dqVars == <<phase, schema, fetchOk, last>>
sugarVars == <<made, sugar, session>>
clientVars == <<self_options, _clients, contexts, created>>
vars == <<start, served, pc, calls, next_cursor, idx, emitted, pagesDone,
          phase, schema, fetchOk, last, made, sugar, session,
          self_options, _clients, contexts, created>>

(***************************************************************************)
(* Bounds                                                                  *)
(***************************************************************************)
MaxPages == 3
MaxItems == 2

(***************************************************************************)
(* Pagination: values                                                      *)
(***************************************************************************)
\* Python None (also what dict.get gives for an absent key).
None == "<None>"

\* The non-empty cursor token the server hands out with response k: the
\* token of response k+1.
Cur(k) == "cursor-" \o ToString(k)

Drivers == {"iterate", "async_iterate"}

\* has_more of a response: a bool, or the key is absent.
HasMoreValues == {"true", "false", "missing"}

\* The k-th response of the paginated function: `results` is the number of
\* result items (item j of response k is <<k, j>>), next_cursor is None
\* (null or absent), the empty string, or a token.
PageResponses(k) ==
    [results : {0, MaxItems},
     has_more : HasMoreValues,
     next_cursor : {None, "", Cur(k + 1)}]

StartCursors == {None, Cur(1)}

\* response.get("results") of the k-th response
ResultsOf(k, resp) == [j \in 1..resp.results |-> <<k, j>>]

\* Python truthiness of a cursor value: None and "" are falsy.
Truthy(c) == c # None /\ c # ""

(***************************************************************************)
(* Pagination: the two termination tests                                   *)
(***************************************************************************)
\* Mutant: the has_more test inverted (stops while the server has more).
SyncAfterPageInverted(resp) ==
    IF resp.has_more = "true" \/ ~Truthy(resp.next_cursor)
    THEN "return" ELSE "continue"

\* helpers.py:70-72  `if not response.get("has_more") or not next_cursor`
\* outcome: "return" | "continue"
SyncAfterPage(resp) ==
    IF resp.has_more # "true" \/ ~Truthy(resp.next_cursor)
    THEN "return" ELSE "continue"

\* helpers.py:91-93  `if (not response["has_more"]) | (next_cursor is None)`
\* response["has_more"] raises KeyError when the key is absent.
AsyncAfterPage(resp) ==
    IF resp.has_more = "missing" THEN "KeyError"
    ELSE IF resp.has_more = "false" \/ resp.next_cursor = None
    THEN "return" ELSE "continue"

AfterPage(d, resp) ==
    IF d = "iterate" THEN SyncAfterPage(resp) ELSE AsyncAfterPage(resp)

\* Mutant: the cursor is not advanced, so the same page is asked for again.
NextCursorStale(resp, previous) == previous

\* helpers.py:70 / 91  next_cursor = response.get("next_cursor")
NextCursorOf(resp, previous) == resp.next_cursor

\* The response the generator of driver d is working on.
CurrentPage(d) == served[Len(calls[d])]

\* Mutant: the results are not handed out one by one before the next call.
YieldSkipped(d) == FALSE

\* The for-loop over response.get("results") still has an item to yield.
YieldPending(d) == idx[d] <= CurrentPage(d).results

(***************************************************************************)
(* Pagination: actions                                                     *)
(***************************************************************************)
PagInit ==
    /\ start \in StartCursors
    /\ served = <<>>
    /\ pc = [d \in Drivers |-> "fetch"]
    /\ calls = [d \in Drivers |-> <<>>]
    \* helpers.py:63 / 84  next_cursor = kwargs.pop("start_cursor", None)
    /\ next_cursor = [d \in Drivers |-> start]
    /\ idx = [d \in Drivers |-> 1]
    /\ emitted = [d \in Drivers |-> <<>>]
    /\ pagesDone = [d \in Drivers |-> 0]

\* response = function(**kwargs, start_cursor=next_cursor)
\* The k-th call of either driver gets the same k-th response.
Fetch(d) ==
    /\ pc[d] = "fetch"
    /\ Len(calls[d]) < MaxPages
    /\ LET k == Len(calls[d]) + 1 IN
         /\ IF k <= Len(served)
            THEN UNCHANGED served
            ELSE \E resp \in PageResponses(k) : served' = Append(served, resp)
    /\ calls' = [calls EXCEPT ![d] = Append(@, next_cursor[d])]
    /\ idx' = [idx EXCEPT ![d] = 1]
    /\ pc' = [pc EXCEPT ![d] = "loop"]
    /\ UNCHANGED <<start, next_cursor, emitted, pagesDone>>
    /\ UNCHANGED <<dqVars, sugarVars, clientVars>>

\* for result in response.get("results"): yield result
Yield(d) ==
    /\ pc[d] = "loop"
    /\ YieldPending(d)
    /\ emitted' = [emitted EXCEPT
                     ![d] = Append(@, ResultsOf(Len(calls[d]), CurrentPage(d))[idx[d]])]
    /\ idx' = [idx EXCEPT ![d] = @ + 1]
    /\ UNCHANGED <<start, served, pc, calls, next_cursor, pagesDone>>
    /\ UNCHANGED <<dqVars, sugarVars, clientVars>>

\* after the for-loop: read next_cursor, then return, loop again or raise
EndOfPage(d) ==
    /\ pc[d] = "loop"
    /\ ~YieldPending(d)
    /\ next_cursor' = [next_cursor EXCEPT
                         ![d] = NextCursorOf(CurrentPage(d), @)]
    /\ pagesDone' = [pagesDone EXCEPT ![d] = @ + 1]
    /\ pc' = [pc EXCEPT ![d] =
                CASE AfterPage(d, CurrentPage(d)) = "return" -> "done"
                  [] AfterPage(d, CurrentPage(d)) = "continue" -> "fetch"
                  [] OTHER -> "error"]
    /\ UNCHANGED <<start, served, calls, idx, emitted>>
    /\ UNCHANGED <<dqVars, sugarVars, clientVars>>

\* The generator is suspended before its first resumption and at each yield.
Suspended(d) ==
    \/ pc[d] = "fetch" /\ calls[d] = <<>>
    \/ pc[d] = "loop" /\ idx[d] > 1

\* The consumer drops the generator: it is never resumed again.
Abandon(d) ==
    /\ Suspended(d)
    /\ pc' = [pc EXCEPT ![d] = "abandoned"]
    /\ UNCHANGED <<start, served, calls, next_cursor, idx, emitted, pagesDone>>
    /\ UNCHANGED <<dqVars, sugarVars, clientVars>>

DriverStep(d) == Fetch(d) \/ Yield(d) \/ EndOfPage(d)

PagNext ==
    \E d \in Drivers : Fetch(d) \/ Yield(d) \/ EndOfPage(d) \/ Abandon(d)

(***************************************************************************)
(* Pagination: claims                                                      *)
(***************************************************************************)
\* The page on which the documented loop must stop: has_more is false, or
\* next_cursor is absent/null.
StopPage(resp) == resp.has_more = "false" \/ resp.next_cursor = None

\* Driver d has run the for-loop of its current response to the end.
PageFinished(d) == calls[d] # <<>> /\ pagesDone[d] = Len(calls[d])

\* C1: both drivers stop normally (no exception) right after the items of
\* the first page whose has_more is false or whose next_cursor is
\* absent/null, and make no call after such a page.
C1_StopsOnStopPage ==
    \A d \in Drivers :
        /\ \A k \in 1..(Len(calls[d]) - 1) : ~StopPage(served[k])
        /\ (PageFinished(d) /\ StopPage(CurrentPage(d))) => pc[d] = "done"

RECURSIVE ItemsUpTo(_, _)
\* All result items of the first n responses of pages, in page order and
\* within-page order.
ItemsUpTo(pages, n) ==
    IF n = 0 THEN <<>>
    ELSE ItemsUpTo(pages, n - 1) \o ResultsOf(n, pages[n])

IsPrefix(s, t) == Len(s) <= Len(t) /\ \A i \in 1..Len(s) : s[i] = t[i]

\* The responses served form a complete chain of N pages: every page but
\* the last has has_more = true and the next page's cursor, the last page
\* has has_more = false.
CompleteChain ==
    /\ served # <<>>
    /\ \A k \in 1..(Len(served) - 1) :
          served[k].has_more = "true" /\ served[k].next_cursor = Cur(k + 1)
    /\ served[Len(served)].has_more = "false"

\* C2: on a complete chain each driver emits every item of every page
\* exactly once, in page order and within-page order, and terminates: it
\* never raises, what it has emitted is always a prefix of all items, when it
\* is done it has emitted all of them, and until then (unless the consumer
\* dropped it) it can take its next step.
C2_ChainDrained ==
    CompleteChain =>
        \A d \in Drivers :
            /\ pc[d] # "error"
            /\ IsPrefix(emitted[d], ItemsUpTo(served, Len(served)))
            /\ pc[d] = "done" => emitted[d] = ItemsUpTo(served, Len(served))
            /\ pc[d] \notin {"done", "abandoned"} => ENABLED DriverStep(d)

C2_Witness ==
    /\ CompleteChain
    /\ Len(served) >= 2
    /\ \A d \in Drivers : pc[d] = "done" /\ Len(emitted[d]) >= 2 * MaxItems

\* How a run of a driver ended, or "running".
Outcome(d) == IF pc[d] \in {"done", "error"} THEN pc[d] ELSE "running"

\* C3: on the same responses the two drivers make the same calls with the
\* same cursors, emit the same items in the same order and end the same way.
C3_SameSemantics ==
    (\A d \in Drivers : Outcome(d) # "running") =>
        /\ Outcome("iterate") = Outcome("async_iterate")
        /\ calls["iterate"] = calls["async_iterate"]
        /\ emitted["iterate"] = emitted["async_iterate"]

\* C4: the first call carries the caller's start_cursor, every later call
\* exactly the next_cursor of the response before it, and there are as many
\* calls as pages emitted.
C4_CursorChain ==
    \A d \in Drivers :
        /\ \A k \in 1..Len(calls[d]) :
              calls[d][k] = IF k = 1 THEN start ELSE served[k - 1].next_cursor
        /\ pagesDone[d] \in {Len(calls[d]) - 1, Len(calls[d])}
        /\ pc[d] \in {"done", "error", "fetch"} => pagesDone[d] = Len(calls[d])

C4_Witness ==
    \E d \in Drivers :
        /\ pc[d] = "done"
        /\ Len(calls[d]) = 3
        /\ start # None
        /\ calls[d][2] # calls[d][3]

\* C5: page i+1 is fetched only after every item of page i went to the
\* consumer, and a generator the consumer dropped makes no further call.
C5_OnDemand ==
    /\ [](\A d \in Drivers :
            calls[d] # <<>> =>
                Len(emitted[d]) >= Len(ItemsUpTo(served, Len(calls[d]) - 1)))
    /\ [][\A d \in Drivers :
            pc[d] = "abandoned" => calls'[d] = calls[d] /\ pc'[d] = "abandoned"]_vars

C5_Witness ==
    \E d \in Drivers :
        /\ pc[d] = "abandoned"
        /\ Len(calls[d]) = 2
        /\ CurrentPage(d).has_more = "true"
        /\ Truthy(CurrentPage(d).next_cursor)
        /\ pagesDone[d] = 1


(***************************************************************************)
(* DatabaseQuery: values                                                   *)
(***************************************************************************)
EmptyDict == [n \in {} |-> None]

\* Property names a caller may pass to add_row / update_row.
Names == {"Name", "Priority", "Notes"}

\* Native Python values: the type and the str() of the value (for a list,
\* of its elements).
PyStr(s) == [type |-> "str", items |-> <<s>>]
PyInt(s) == [type |-> "int", items |-> <<s>>]
PyList(l) == [type |-> "list", items |-> l]
Values == {PyStr("High"), PyInt("7"), PyList(<<"api", "infra">>)}

RECURSIVE JoinQuoted(_)
JoinQuoted(l) ==
    IF l = <<>> THEN ""
    ELSE IF Len(l) = 1 THEN "'" \o l[1] \o "'"
    ELSE "'" \o l[1] \o "', " \o JoinQuoted(Tail(l))

\* str(value)
StrOf(v) == IF v.type = "list" THEN "[" \o JoinQuoted(v.items) \o "]" ELSE v.items[1]

\* float(value): ints convert, a non-numeric str raises ValueError, a list
\* raises TypeError.
FloatOf(v) ==
    CASE v.type = "int" -> [error |-> "none", text |-> v.items[1] \o ".0"]
      [] v.type = "str" -> [error |-> "ValueError", text |-> ""]
      [] OTHER -> [error |-> "TypeError", text |-> ""]

\* A schema entry: the property type and, for select-like types, the names
\* of the declared options (none when the entry has no options).
Def(kind, opts) == [type |-> kind, options |-> opts]

\* What describe-database may report as `properties`.
TaskSchema ==
    [n \in {"Name", "Priority", "Tags"} |->
        CASE n = "Name" -> Def("title", <<>>)
          [] n = "Priority" -> Def("select", <<"Low", "High">>)
          [] OTHER -> Def("multi_select", <<>>)]
ServerSchemas == {EmptyDict, TaskSchema}

\* property_types arguments: None (the default), {} or a mapping.
NoTypes == [given |-> FALSE, map |-> EmptyDict]
Types(m) == [given |-> TRUE, map |-> m]
DeclaredTypes ==
    {NoTypes,
     Types(EmptyDict),
     Types([n \in {"Notes"} |-> "number"]),
     Types([n \in {"Notes", "Priority"} |->
              IF n = "Notes" THEN "multi_select" ELSE "number"]),
     Types([n \in {"Notes"} |-> "people"])}

\* What the HTTP transport does with one request.
SendOutcomes == {"ok", "timeout", "status_error"}

MaxFields == 2
\* The keyword arguments of a call: a dict of at most MaxFields fields.
RowInputs ==
    UNION {[S -> Values] : S \in {T \in SUBSET Names : Cardinality(T) <= MaxFields}}

(***************************************************************************)
(* Codec scenarios: schemas and rows                                       *)
(***************************************************************************)
\* TaskSchema with declared options for Tags.
TaggedSchema ==
    [n \in {"Name", "Priority", "Tags"} |->
        CASE n = "Name" -> Def("title", <<>>)
          [] n = "Priority" -> Def("select", <<"Low", "High">>)
          [] OTHER -> Def("multi_select", <<"infra", "api", "ui">>)]

\* A database with one property of every kind query decodes, and one of a
\* kind it has no branch for.
ContactKinds ==
    [n \in {"Name", "Body", "Stage", "Labels", "Due", "Done", "Cost", "Site",
            "Mail", "Phone", "Owner", "Files"} |->
        CASE n = "Name" -> "title"
          [] n = "Body" -> "rich_text"
          [] n = "Stage" -> "select"
          [] n = "Labels" -> "multi_select"
          [] n = "Due" -> "date"
          [] n = "Done" -> "checkbox"
          [] n = "Cost" -> "number"
          [] n = "Site" -> "url"
          [] n = "Mail" -> "email"
          [] n = "Phone" -> "phone_number"
          [] n = "Owner" -> "people"
          [] OTHER -> "files"]
ContactSchema ==
    [n \in DOMAIN ContactKinds |->
        Def(ContactKinds[n], IF n = "Stage" THEN <<"Lead", "Won">> ELSE <<>>)]
\* A database whose title property is not called "Name".
JournalSchema == [n \in {"Notes"} |-> Def("title", <<>>)]
CodecSchemas == {TaskSchema, TaggedSchema, ContactSchema, JournalSchema}

\* The fields a scenario call may pass and the values it may give each.
CodecNames == {"Name", "Priority", "Tags", "Notes"}
CodecValuesOf(n) ==
    CASE n = "Name" -> {PyStr("Ship v2")}
      [] n = "Priority" -> {PyStr("High"), PyStr("Medium")}
      [] n = "Tags" -> {PyList(<<"api", "infra">>), PyStr("api-infra")}
      [] OTHER -> {PyStr("High"), PyInt("7")}
CodecValues == UNION {CodecValuesOf(n) : n \in CodecNames}

MaxCodecFields == 3
CodecInputs ==
    {data \in UNION {[S -> CodecValues] :
                        S \in {T \in SUBSET CodecNames : Cardinality(T) <= MaxCodecFields}} :
        \A n \in DOMAIN data : data[n] \in CodecValuesOf(n)}

CodecTypes ==
    {NoTypes,
     Types([n \in {"Notes"} |-> "number"]),
     Types([n \in {"Notes"} |-> "people"])}

(***************************************************************************)
(* Client.request and the DatabaseQuery helpers                            *)
(***************************************************************************)
\* Mutant: a timed-out request is sent a second time.
RequestWithRetry(send) ==
    [attempts |-> IF send = "timeout" THEN 2 ELSE 1,
     error |-> CASE send = "timeout" -> "RequestTimeoutError"
                 [] send = "status_error" -> "HTTPResponseError"
                 [] OTHER -> "none"]

\* client.py:180-194  one self.client.send(request); httpx.TimeoutException
\* becomes RequestTimeoutError, an error status is raised by _parse_response.
Request(send) ==
    [attempts |-> 1,
     error |-> CASE send = "timeout" -> "RequestTimeoutError"
                 [] send = "status_error" -> "HTTPResponseError"
                 [] OTHER -> "none"]

\* One request as recorded in `last`: the endpoint, the `properties` of its
\* body ({} when it has none), what the transport did, and what
\* Client.request made of it.
Issued(endpoint, properties, send) ==
    [endpoint |-> endpoint,
     properties |-> properties,
     send |-> send,
     attempts |-> Request(send).attempts,
     error |-> Request(send).error]

\* Mutant: a failed describe-database call leaves a default schema behind.
FetchSchemaDefault(send, properties) ==
    IF Request(send).error = "none" THEN properties ELSE TaskSchema

\* crud.py:19-26  _fetch_schema: the properties of the database, {} when the
\* call raises.
FetchSchema(send, properties) ==
    IF Request(send).error = "none" THEN properties ELSE EmptyDict

\* crud.py:116-139  _format_property -> [error, wire]
Wire(kind, type, items) == [kind |-> kind, type |-> type, items |-> items]
NoWire == Wire("", "", <<>>)
FormatProperty(field_type, value) ==
    CASE field_type \in {"title", "rich_text", "select", "url", "email", "phone_number"} ->
            [error |-> "none", wire |-> Wire(field_type, "str", <<StrOf(value)>>)]
      [] field_type = "multi_select" ->
            [error |-> "none",
             wire |-> Wire("multi_select", "list",
                           IF value.type = "list" THEN value.items ELSE <<>>)]
      [] field_type = "date" ->
            [error |-> "none", wire |-> Wire("date", value.type, value.items)]
      [] field_type = "checkbox" ->
            \* bool(value): every value of Values is truthy
            [error |-> "none", wire |-> Wire("checkbox", "bool", <<"True">>)]
      [] field_type = "number" ->
            IF FloatOf(value).error = "none"
            THEN [error |-> "none",
                  wire |-> Wire("number", "float", <<FloatOf(value).text>>)]
            ELSE [error |-> FloatOf(value).error, wire |-> NoWire]
      [] OTHER ->
            [error |-> "none", wire |-> Wire("rich_text", "str", <<StrOf(value)>>)]

\* Mutant: a declared type wins over the type the schema holds.
FieldTypeDeclaredFirst(sch, property_types, key) ==
    IF property_types.given /\ key \in DOMAIN property_types.map
    THEN property_types.map[key]
    ELSE IF key \in DOMAIN sch THEN sch[key].type ELSE "rich_text"

\* crud.py:79-82 / 230-233  the type a field is formatted with
FieldType(sch, property_types, key) ==
    IF key \in DOMAIN sch THEN sch[key].type
    ELSE IF property_types.given /\ property_types.map # EmptyDict
            /\ key \in DOMAIN property_types.map
         THEN property_types.map[key]
         ELSE "rich_text"

\* crud.py:76-85  new_fields after the loop
NewFields(sch, property_types, kwargs) ==
    [k \in (DOMAIN kwargs) \ (DOMAIN sch) |-> FieldType(sch, property_types, k)]

\* crud.py:75-85  properties after the loop
Properties(sch, property_types, kwargs) ==
    [k \in DOMAIN kwargs |->
        FormatProperty(FieldType(sch, property_types, k), kwargs[k]).wire]

\* The exception _format_property raises inside the loop, "none" if none.
LoopError(sch, property_types, kwargs) ==
    LET bad == {k \in DOMAIN kwargs :
                  FormatProperty(FieldType(sch, property_types, k), kwargs[k]).error # "none"}
    IN IF bad = {} THEN "none"
       ELSE FormatProperty(FieldType(sch, property_types, CHOOSE k \in bad : TRUE),
                           kwargs[CHOOSE k \in bad : TRUE]).error

\* crud.py:102-104  formatted_properties
FormattedProperties(new_properties) ==
    [n \in DOMAIN new_properties |-> Def(new_properties[n], <<>>)]

\* dict.update
DictUpdate(d, e) ==
    [n \in (DOMAIN d) \cup (DOMAIN e) |-> IF n \in DOMAIN e THEN e[n] ELSE d[n]]

\* Mutant: the cache is replaced by the patched entries.
UpdateSchemaReplace(sch, new_properties, send) ==
    IF Request(send).error = "none" THEN FormattedProperties(new_properties) ELSE sch

\* Mutant: the cache is updated whether or not the request succeeded.
UpdateSchemaAlways(sch, new_properties, send) ==
    DictUpdate(sch, FormattedProperties(new_properties))

\* crud.py:100-114  _update_schema: self.schema after the call
UpdateSchema(sch, new_properties, send) ==
    IF Request(send).error = "none"
    THEN DictUpdate(sch, FormattedProperties(new_properties))
    ELSE sch

(***************************************************************************)
(* DatabaseQuery.generate_valid_data                                       *)
(***************************************************************************)
\* What may stand before and after an option name inside a str value.
Affixes == {"", "api-", "-infra"}

\* crud.py:51  opt["name"] in field_value: membership in a list, substring
\* of a str.
Contains(field_value, name) ==
    CASE field_value.type = "list" ->
            \E i \in 1..Len(field_value.items) : field_value.items[i] = name
      [] field_value.type = "str" ->
            \E a \in Affixes, b \in Affixes : field_value.items[1] = a \o name \o b
      [] OTHER -> FALSE

\* crud.py:45  any(opt["name"] == field_value for opt in options)
IsOption(options, field_value) ==
    /\ field_value.type = "str"
    /\ \E i \in 1..Len(options) : options[i] = field_value.items[1]

\* One field of generate_valid_data -> [set, error, wire]; `set` tells
\* whether valid_data gets the key.
Valid(wire) == [set |-> TRUE, error |-> "none", wire |-> wire]
Skipped == [set |-> FALSE, error |-> "none", wire |-> NoWire]
Raised(error) == [set |-> FALSE, error |-> error, wire |-> NoWire]

\* Mutant: a select value is written without looking at the options.
ValidFieldUnchecked(definition, field_value) ==
    CASE definition.type \in {"title", "rich_text", "url", "email", "phone_number"} ->
            Valid(Wire(definition.type, "str", <<StrOf(field_value)>>))
      [] definition.type = "select" ->
            Valid(Wire("select", field_value.type, field_value.items))
      [] definition.type = "multi_select" ->
            \* `in` on an int raises as soon as there is an option to test
            IF field_value.type = "int" /\ definition.options # <<>>
            THEN Raised("TypeError")
            ELSE LET selected_options ==
                         SelectSeq(definition.options,
                                   LAMBDA name : Contains(field_value, name))
                 IN IF selected_options # <<>>
                    THEN Valid(Wire("multi_select", "list", selected_options))
                    ELSE Skipped
      [] definition.type = "date" ->
            \* no value of the model is a datetime: str(field_value)
            Valid(Wire("date", "str", <<StrOf(field_value)>>))
      [] definition.type = "checkbox" ->
            Valid(Wire("checkbox", "bool", <<"True">>))
      [] definition.type = "number" ->
            IF FloatOf(field_value).error = "none"
            THEN Valid(Wire("number", "float", <<FloatOf(field_value).text>>))
            ELSE Raised(FloatOf(field_value).error)
      [] OTHER -> Skipped

\* crud.py:37-69  the branch of generate_valid_data for one field of the
\* schema.
ValidField(definition, field_value) ==
    CASE definition.type \in {"title", "rich_text", "url", "email", "phone_number"} ->
            Valid(Wire(definition.type, "str", <<StrOf(field_value)>>))
      [] definition.type = "select" ->
            IF IsOption(definition.options, field_value)
            THEN Valid(Wire("select", field_value.type, field_value.items))
            ELSE Skipped
      [] definition.type = "multi_select" ->
            \* `in` on an int raises as soon as there is an option to test
            IF field_value.type = "int" /\ definition.options # <<>>
            THEN Raised("TypeError")
            ELSE LET selected_options ==
                         SelectSeq(definition.options,
                                   LAMBDA name : Contains(field_value, name))
                 IN IF selected_options # <<>>
                    THEN Valid(Wire("multi_select", "list", selected_options))
                    ELSE Skipped
      [] definition.type = "date" ->
            \* no value of the model is a datetime: str(field_value)
            Valid(Wire("date", "str", <<StrOf(field_value)>>))
      [] definition.type = "checkbox" ->
            Valid(Wire("checkbox", "bool", <<"True">>))
      [] definition.type = "number" ->
            IF FloatOf(field_value).error = "none"
            THEN Valid(Wire("number", "float", <<FloatOf(field_value).text>>))
            ELSE Raised(FloatOf(field_value).error)
      [] OTHER -> Skipped

\* crud.py:32-35  the fields of `data` the schema has; the others are
\* skipped.
InSchema(sch, data) == (DOMAIN data) \cap (DOMAIN sch)

\* crud.py:28-71  valid_data, when no field raises
ValidData(sch, data) ==
    [k \in {n \in InSchema(sch, data) : ValidField(sch[n], data[n]).set} |->
        ValidField(sch[k], data[k]).wire]

\* The exception that escapes generate_valid_data, "none" if none.
ValidDataError(sch, data) ==
    LET bad == {k \in InSchema(sch, data) : ValidField(sch[k], data[k]).error # "none"}
    IN IF bad = {} THEN "none"
       ELSE ValidField(sch[CHOOSE k \in bad : TRUE], data[CHOOSE k \in bad : TRUE]).error

(***************************************************************************)
(* DatabaseQuery.query: decoding a page                                    *)
(***************************************************************************)
\* DEFAULT_PLACEHOLDER (crud.py:7) and the title of a page without one
\* (crud.py:155, "Без названия").
Placeholder == ""
Untitled == "Bez nazvaniya"
\* The two displays of a checkbox (crud.py:186, a check mark and a cross).
Checked == "yes"
Unchecked == "no"

\* A page of a query response: its id and its properties, each a wire
\* property. In a title or rich_text property `items` holds the content of
\* each part (None for a part without text content); type "null" is a JSON
\* null payload, type "malformed" a part that is not an object.
Entry(id, properties) == [id |-> id, properties |-> properties]
FullPage ==
    Entry("page-1",
          [n \in {"Name", "Priority", "Tags"} |->
              CASE n = "Name" -> Wire("title", "str", <<"Ship v2">>)
                [] n = "Priority" -> Wire("select", "str", <<"High">>)
                [] OTHER -> Wire("multi_select", "list", <<"api", "infra">>)])
SparsePage ==
    Entry("page-2",
          [n \in {"Name", "Notes"} |->
              IF n = "Name" THEN Wire("title", "str", <<>>)
              ELSE Wire("rich_text", "str", <<>>)])
BarePage == Entry("page-3", EmptyDict)
BrokenPage ==
    Entry("page-4", [n \in {"Name"} |-> Wire("title", "malformed", <<"x">>)])
Entries == {FullPage, SparsePage, BarePage, BrokenPage}

MaxEntries == 2
RECURSIVE SeqsUpTo(_, _)
SeqsUpTo(S, n) ==
    IF n = 0 THEN {<<>>}
    ELSE SeqsUpTo(S, n - 1)
         \cup {Append(q, x) : q \in {r \in SeqsUpTo(S, n - 1) : Len(r) = n - 1}, x \in S}
\* response.get("results", []) of a query response
QueryResults == SeqsUpTo(Entries, MaxEntries)

\* Pages of a database with ContactSchema: every property filled, every
\* property present but empty, and only the title present.
ContactPage ==
    Entry("page-5",
          [n \in DOMAIN ContactKinds |->
              CASE n = "Name" -> Wire("title", "str", <<"Ada">>)
                [] n = "Body" -> Wire("rich_text", "str", <<"met at expo">>)
                [] n = "Stage" -> Wire("select", "str", <<"Lead">>)
                [] n = "Labels" -> Wire("multi_select", "list", <<"api", "infra">>)
                [] n = "Due" -> Wire("date", "str", <<"2024-05-01">>)
                [] n = "Done" -> Wire("checkbox", "bool", <<"True">>)
                [] n = "Cost" -> Wire("number", "float", <<"7.0">>)
                [] n = "Site" -> Wire("url", "str", <<"https://ada.example">>)
                [] n = "Mail" -> Wire("email", "str", <<"ada@ada.example">>)
                [] n = "Phone" -> Wire("phone_number", "str", <<"+100">>)
                [] n = "Owner" -> Wire("people", "list", <<"Bob">>)
                [] OTHER -> Wire("files", "list", <<>>)])
EmptyContactPage ==
    Entry("page-6",
          [n \in DOMAIN ContactKinds |->
              CASE n = "Name" -> Wire("title", "str", <<"Eve">>)
                [] ContactKinds[n] \in {"rich_text", "multi_select", "people", "files"} ->
                      Wire(ContactKinds[n],
                           IF ContactKinds[n] = "rich_text" THEN "str" ELSE "list", <<>>)
                [] ContactKinds[n] = "checkbox" -> Wire("checkbox", "bool", <<"False">>)
                [] OTHER -> Wire(ContactKinds[n], "null", <<>>)])
NameOnlyPage ==
    Entry("page-7", [n \in {"Name"} |-> Wire("title", "str", <<"Joe">>)])
CodecEntries ==
    {FullPage, BarePage, BrokenPage, ContactPage, EmptyContactPage, NameOnlyPage}
CodecResults == SeqsUpTo(CodecEntries, MaxEntries)

\* crud.py:155-159  title_value -> [error, text]
TitleValue(properties) ==
    IF "Name" \in DOMAIN properties /\ properties["Name"].kind = "title"
    THEN LET parts == properties["Name"] IN
         IF parts.items = <<>> THEN [error |-> "none", text |-> Untitled]
         ELSE IF parts.type = "malformed"
              THEN [error |-> "AttributeError", text |-> ""]
              ELSE [error |-> "none",
                    text |-> IF parts.items[1] = None THEN Untitled ELSE parts.items[1]]
    ELSE [error |-> "none", text |-> Untitled]

Names_(l) == SelectSeq(l, LAMBDA x : x # None /\ x # "")

\* [set, error, value]: whether the record gets the key, the exception
\* raised, the value stored.
Decoded(v) == [set |-> TRUE, error |-> "none", value |-> v]

\* Mutant: the names of a multi_select or people property are returned as
\* they are, an empty list included.
DecodeFieldBareList(field_type, properties, field_name, title_value) ==
    LET value == IF field_name \in DOMAIN properties
                 THEN properties[field_name] ELSE NoWire
        \* value.get(key): the payload under `key`, absent when the property
        \* holds another key
        has == value.kind = field_type /\ value.type # "null"
    IN CASE field_type = "title" -> Decoded(PyStr(title_value))
         [] field_type = "rich_text" ->
              IF has /\ value.items # <<>>
              THEN IF value.type = "malformed"
                   THEN [set |-> FALSE, error |-> "AttributeError", value |-> PyStr("")]
                   ELSE Decoded(PyStr(IF value.items[1] = None THEN Placeholder
                                      ELSE value.items[1]))
              ELSE Decoded(PyStr(Placeholder))
         [] field_type = "select" ->
              \* a null select, or one without a name, has no name
              Decoded(IF has /\ value.items # <<>> /\ value.items[1] # None
                      THEN PyStr(value.items[1]) ELSE PyStr(Placeholder))
         [] field_type \in {"url", "email", "phone_number"} ->
              Decoded(IF has THEN PyStr(value.items[1]) ELSE PyStr(Placeholder))
         [] field_type \in {"multi_select", "people"} ->
              \* a null payload is iterated: TypeError
              IF value.kind = field_type /\ value.type = "null"
              THEN [set |-> FALSE, error |-> "TypeError", value |-> PyStr("")]
              ELSE Decoded(IF has THEN PyList(Names_(value.items)) ELSE PyList(<<>>))
         [] field_type = "date" ->
              \* a null or empty date, or one without a start, has no start
              Decoded(IF has /\ value.items # <<>> /\ value.items[1] # None
                      THEN [type |-> value.type, items |-> value.items]
                      ELSE PyStr(Placeholder))
         [] field_type = "checkbox" ->
              Decoded(PyStr(IF has /\ value.items = <<"True">> THEN Checked ELSE Unchecked))
         [] field_type = "number" ->
              Decoded(IF has THEN [type |-> "float", items |-> value.items]
                      ELSE PyStr(Placeholder))
         [] OTHER -> [set |-> FALSE, error |-> "none", value |-> PyStr("")]

\* crud.py:162-202  one schema field of one page -> [set, error, value]
DecodeField(field_type, properties, field_name, title_value) ==
    LET value == IF field_name \in DOMAIN properties
                 THEN properties[field_name] ELSE NoWire
        \* value.get(key): the payload under `key`, absent when the property
        \* holds another key
        has == value.kind = field_type /\ value.type # "null"
    IN CASE field_type = "title" -> Decoded(PyStr(title_value))
         [] field_type = "rich_text" ->
              IF has /\ value.items # <<>>
              THEN IF value.type = "malformed"
                   THEN [set |-> FALSE, error |-> "AttributeError", value |-> PyStr("")]
                   ELSE Decoded(PyStr(IF value.items[1] = None THEN Placeholder
                                      ELSE value.items[1]))
              ELSE Decoded(PyStr(Placeholder))
         [] field_type = "select" ->
              \* a null select, or one without a name, has no name
              Decoded(IF has /\ value.items # <<>> /\ value.items[1] # None
                      THEN PyStr(value.items[1]) ELSE PyStr(Placeholder))
         [] field_type \in {"url", "email", "phone_number"} ->
              Decoded(IF has THEN PyStr(value.items[1]) ELSE PyStr(Placeholder))
         [] field_type \in {"multi_select", "people"} ->
              \* a null payload is iterated: TypeError
              IF value.kind = field_type /\ value.type = "null"
              THEN [set |-> FALSE, error |-> "TypeError", value |-> PyStr("")]
              ELSE Decoded(IF has /\ Names_(value.items) # <<>>
                           THEN PyList(Names_(value.items))
                           ELSE PyList(<<Placeholder>>))
         [] field_type = "date" ->
              \* a null or empty date, or one without a start, has no start
              Decoded(IF has /\ value.items # <<>> /\ value.items[1] # None
                      THEN [type |-> value.type, items |-> value.items]
                      ELSE PyStr(Placeholder))
         [] field_type = "checkbox" ->
              Decoded(PyStr(IF has /\ value.items = <<"True">> THEN Checked ELSE Unchecked))
         [] field_type = "number" ->
              Decoded(IF has THEN [type |-> "float", items |-> value.items]
                      ELSE PyStr(Placeholder))
         [] OTHER -> [set |-> FALSE, error |-> "none", value |-> PyStr("")]

\* crud.py:147-204  one entry -> [skipped, error, record]
DecodeEntry(sch, entry) ==
    LET title == TitleValue(entry.properties)
        field(n) == DecodeField(sch[n].type, entry.properties, n, title.text)
        keys == {n \in DOMAIN sch : field(n).set}
    IN IF entry.properties = EmptyDict
       THEN [skipped |-> TRUE, error |-> "none", record |-> EmptyDict]
       ELSE IF title.error # "none"
       THEN [skipped |-> FALSE, error |-> title.error, record |-> EmptyDict]
       ELSE IF \E n \in DOMAIN sch : field(n).error # "none"
       THEN [skipped |-> FALSE,
             error |-> field(CHOOSE n \in DOMAIN sch : field(n).error # "none").error,
             record |-> EmptyDict]
       ELSE [skipped |-> FALSE, error |-> "none",
             \* record_data = {"id": ..., "title": ...}, then the schema's
             \* fields, which overwrite a key of the same name
             record |-> [n \in {"id", "title"} \cup keys |->
                           IF n \in keys THEN field(n).value
                           ELSE IF n = "id" THEN PyStr(entry.id)
                           ELSE PyStr(title.text)]]

RECURSIVE FormattedResultsKeepBare(_, _)
\* Mutant: an entry without properties is not skipped.
FormattedResultsKeepBare(sch, results) ==
    IF results = <<>> THEN <<>>
    ELSE <<DecodeEntry(sch, Head(results)).record>>
         \o FormattedResultsKeepBare(sch, Tail(results))

RECURSIVE FormattedResults(_, _)
\* crud.py:146-204  formatted_results for a list of entries
FormattedResults(sch, results) ==
    IF results = <<>> THEN <<>>
    ELSE LET d == DecodeEntry(sch, Head(results)) IN
         IF d.skipped THEN FormattedResults(sch, Tail(results))
         ELSE <<d.record>> \o FormattedResults(sch, Tail(results))

\* The exception raised while decoding `results`, "none" if none.
DecodeError(sch, results) ==
    LET bad == {i \in 1..Len(results) : DecodeEntry(sch, results[i]).error # "none"}
    IN IF bad = {} THEN "none"
       ELSE DecodeEntry(sch, results[CHOOSE i \in bad : \A j \in bad : i <= j]).error

(***************************************************************************)
(* DatabaseQuery: actions                                                  *)
(***************************************************************************)
\* One error message printed by an except clause: the method and the
\* exception it caught.
Report(where, error) == [where |-> where, error |-> error]

NoCall ==
    [op |-> "none", kwargs |-> EmptyDict, property_types |-> NoTypes,
     schemaBefore |-> EmptyDict, new_fields |-> EmptyDict, kinds |-> EmptyDict,
     properties |-> EmptyDict, requests |-> <<>>, reports |-> <<>>,
     raised |-> "none", returned |-> "none", records |-> <<>>,
     \* query: the `results` of the response and whether it announced more
     \* (has_more true with a next_cursor)
     results |-> <<>>, has_more |-> FALSE]

DqInit ==
    /\ phase = "new"
    /\ schema = EmptyDict
    /\ fetchOk = FALSE
    /\ last = NoCall

\* crud.py:8-17  DatabaseQuery(database_id, client), the database having one
\* of `schemas`
ConstructOf(schemas) ==
    /\ phase = "new"
    /\ \E send \in SendOutcomes, properties \in schemas :
         /\ schema' = FetchSchema(send, properties)
         /\ fetchOk' = (Request(send).error = "none")
         /\ last' = [NoCall EXCEPT
                       !.op = "init",
                       !.requests = <<Issued("databases.retrieve", EmptyDict, send)>>,
                       !.reports = IF Request(send).error = "none" THEN <<>>
                                   ELSE <<Report("_fetch_schema", Request(send).error)>>,
                       !.returned = "session"]
    /\ phase' = "ready"
    /\ UNCHANGED <<pagVars, sugarVars, clientVars>>

Construct == ConstructOf(ServerSchemas)

\* Mutant: a page request that fails takes the patched fields out of the
\* cache again.
SchemaAfterWriteRollback(sch, new_fields, patchSend, pageSend) ==
    IF new_fields # EmptyDict /\ Request(pageSend).error = "none"
    THEN UpdateSchema(sch, new_fields, patchSend)
    ELSE sch

\* crud.py:87-99 / 238-250  self.schema when the call returns: touched by
\* _update_schema only, and only when there are new fields; the outcome of
\* the page request plays no part.
SchemaAfterWrite(sch, new_fields, patchSend, pageSend) ==
    IF new_fields # EmptyDict
    THEN UpdateSchema(sch, new_fields, patchSend)
    ELSE sch

\* Mutant: a failed schema patch aborts the write.
RowRequestsAbortOnPatchError(endpoint, new_fields, properties, patchSend, pageSend) ==
    IF new_fields = EmptyDict
    THEN <<Issued(endpoint, properties, pageSend)>>
    ELSE IF Request(patchSend).error # "none"
    THEN <<Issued("databases.update", FormattedProperties(new_fields), patchSend)>>
    ELSE <<Issued("databases.update", FormattedProperties(new_fields), patchSend),
           Issued(endpoint, properties, pageSend)>>

\* crud.py:87-94 / 238-245  the requests of a call whose loop has finished:
\* _update_schema(new_fields) when new_fields is not empty, then the page
\* request with all of `properties`, whatever the patch did.
RowRequests(endpoint, new_fields, properties, patchSend, pageSend) ==
    (IF new_fields # EmptyDict
     THEN <<Issued("databases.update", FormattedProperties(new_fields), patchSend)>>
     ELSE <<>>)
    \o <<Issued(endpoint, properties, pageSend)>>

\* crud.py:73-99 add_row and crud.py:224-250 update_row: the loop over the
\* fields, the schema patch when there are new fields, the page request.
\* The arguments are drawn from `inputs` and `types`.
WriteRowOf(op, endpoint, inputs, types) ==
    /\ last.op = "none"
    /\ \E kwargs \in inputs, property_types \in types,
          patchSend \in SendOutcomes, pageSend \in SendOutcomes :
         LET new_fields == NewFields(schema, property_types, kwargs)
             raised == LoopError(schema, property_types, kwargs)
             called == [NoCall EXCEPT
                          !.op = op, !.kwargs = kwargs,
                          !.property_types = property_types,
                          !.schemaBefore = schema]
         IN IF raised # "none"
            THEN /\ last' = [called EXCEPT !.raised = raised]
                 /\ UNCHANGED schema
            ELSE \* without new fields no patch request is made
                 /\ new_fields = EmptyDict => patchSend = "ok"
                 /\ schema' = SchemaAfterWrite(schema, new_fields, patchSend, pageSend)
                 /\ last' =
                      [called EXCEPT
                         !.new_fields = new_fields,
                         !.kinds = [k \in DOMAIN kwargs |->
                                      FieldType(schema, property_types, k)],
                         !.properties = Properties(schema, property_types, kwargs),
                         !.requests =
                            RowRequests(endpoint, new_fields,
                                        Properties(schema, property_types, kwargs),
                                        patchSend, pageSend),
                         !.reports =
                            (IF new_fields # EmptyDict
                                /\ Request(patchSend).error # "none"
                             THEN <<Report("_update_schema", Request(patchSend).error)>>
                             ELSE <<>>)
                            \o (IF Request(pageSend).error # "none"
                                THEN <<Report(op, Request(pageSend).error)>> ELSE <<>>),
                         !.returned = IF Request(pageSend).error = "none"
                                      THEN "response" ELSE "empty"]
    /\ UNCHANGED <<phase, fetchOk>>
    /\ UNCHANGED <<pagVars, sugarVars, clientVars>>

WriteRow(op, endpoint) == WriteRowOf(op, endpoint, RowInputs, DeclaredTypes)

AddRow ==
    /\ phase = "ready"
    /\ WriteRow("add_row", "pages.create")

UpdateRow ==
    /\ phase = "ready"
    /\ WriteRow("update_row", "pages.update")

\* crud.py:141-222  query: one databases.query request, every entry with
\* properties decoded against the cached schema; any exception gives [].
QueryOf(responses) ==
    /\ phase = "ready"
    /\ last.op = "none"
    /\ \E send \in SendOutcomes, results \in responses, has_more \in BOOLEAN :
         LET error == IF Request(send).error # "none" THEN Request(send).error
                      ELSE DecodeError(schema, results)
         IN \* a request that failed has no response
            /\ Request(send).error # "none" => results = <<>> /\ ~has_more
            /\ last' = [NoCall EXCEPT
                          !.op = "query",
                          !.schemaBefore = schema,
                          !.results = results,
                          !.has_more = has_more,
                          !.requests = <<Issued("databases.query", EmptyDict, send)>>,
                          !.reports = IF error = "none" THEN <<>>
                                      ELSE <<Report("query", error)>>,
                          !.returned = "list",
                          !.records = IF error = "none"
                                      THEN FormattedResults(schema, results)
                                      ELSE <<>>]
    /\ UNCHANGED <<phase, schema, fetchOk>>
    /\ UNCHANGED <<pagVars, sugarVars, clientVars>>

Query == QueryOf(QueryResults)

\* crud.py:28-71  generate_valid_data(data): no request is made and the
\* schema is only read.
GenerateValidDataOf(inputs) ==
    /\ phase = "ready"
    /\ last.op = "none"
    /\ \E data \in inputs :
         last' = [NoCall EXCEPT
                    !.op = "generate_valid_data",
                    !.kwargs = data,
                    !.schemaBefore = schema,
                    !.properties = IF ValidDataError(schema, data) = "none"
                                   THEN ValidData(schema, data) ELSE EmptyDict,
                    !.raised = ValidDataError(schema, data),
                    !.returned = IF ValidDataError(schema, data) = "none"
                                 THEN "valid_data" ELSE "none"]
    /\ UNCHANGED <<phase, schema, fetchOk>>
    /\ UNCHANGED <<pagVars, sugarVars, clientVars>>

\* The caller has taken the result of the last call.
Return ==
    /\ last.op # "none"
    /\ last' = NoCall
    /\ UNCHANGED <<phase, schema, fetchOk>>
    /\ UNCHANGED <<pagVars, sugarVars, clientVars>>

(***************************************************************************)
(* Decorated classes, NotionSugar and the client stack: the state before   *)
(* anything is constructed                                                 *)
(***************************************************************************)
\* No decorated class has been instantiated.
NoObject ==
    [decorator |-> "none", cls |-> "none", kwargs |-> EmptyDict,
     raised |-> "none", attrs |-> EmptyDict]

\* NotionSugar(...) has not been called.
NoSugar ==
    [state |-> "none", token |-> "", auth_token |-> None, client |-> None,
     raised |-> "none", message |-> ""]

\* db(...) has not been called.
NoSession ==
    [state |-> "none", argument |-> "", database_id |-> None, client |-> None,
     schema |-> EmptyDict, reports |-> <<>>, raised |-> "none"]

\* No Client/AsyncClient has been constructed.
Unconstructed ==
    [class |-> "none", auth |-> None, timeout_ms |-> 0, base_url |-> ""]

SugarIdle ==
    /\ made = NoObject
    /\ sugar = NoSugar
    /\ session = NoSession

ClientIdle ==
    /\ self_options = Unconstructed
    /\ _clients = <<>>
    /\ contexts = <<>>
    /\ created = 0

PagIdle ==
    /\ start = None
    /\ served = <<>>
    /\ pc = [d \in Drivers |-> "fetch"]
    /\ calls = [d \in Drivers |-> <<>>]
    /\ next_cursor = [d \in Drivers |-> None]
    /\ idx = [d \in Drivers |-> 1]
    /\ emitted = [d \in Drivers |-> <<>>]
    /\ pagesDone = [d \in Drivers |-> 0]

DqNext == Construct \/ AddRow \/ UpdateRow \/ Query \/ Return

DqSpecInit == DqInit /\ PagIdle /\ SugarIdle /\ ClientIdle

DqSpec == DqSpecInit /\ [][DqNext]_vars

\* The session on the codec scenarios.
CodecConstruct ==
    /\ phase = "new"
    /\ ConstructOf(CodecSchemas)

CodecAddRow ==
    /\ phase = "ready"
    /\ WriteRowOf("add_row", "pages.create", CodecInputs, CodecTypes)

CodecUpdateRow ==
    /\ phase = "ready"
    /\ WriteRowOf("update_row", "pages.update", CodecInputs, CodecTypes)

GenerateValidData ==
    /\ phase = "ready"
    /\ GenerateValidDataOf(CodecInputs)

CodecQuery ==
    /\ phase = "ready"
    /\ QueryOf(CodecResults)

CodecNext ==
    CodecConstruct \/ CodecAddRow \/ CodecUpdateRow \/ GenerateValidData
    \/ CodecQuery \/ Return

CodecSpec == DqSpecInit /\ [][CodecNext]_vars

PagSpecInit == PagInit /\ DqInit /\ SugarIdle /\ ClientIdle

PagSpec == PagSpecInit /\ [][PagNext]_vars

(***************************************************************************)
(* DatabaseQuery: claims                                                   *)
(***************************************************************************)
RowOps == {"add_row", "update_row"}

\* The last call got through its loop over the fields and issued its page
\* request.
RowWritten == last.op \in RowOps /\ last.raised = "none"

\* The schema patch request of the last call, when it made one.
PatchIssued ==
    /\ last.op \in RowOps
    /\ last.requests # <<>>
    /\ last.requests[1].endpoint = "databases.update"
PatchRequest == last.requests[1]

\* The page create / update request of the last call, when it made one.
PageEndpoints == {"pages.create", "pages.update"}
PageIssued ==
    /\ last.op \in RowOps
    /\ last.requests # <<>>
    /\ last.requests[Len(last.requests)].endpoint \in PageEndpoints
PageRequest == last.requests[Len(last.requests)]

\* The errors Client.request raises.
RequestErrors == {"RequestTimeoutError", "HTTPResponseError"}

\* C6: no operation retries: every request of a call (schema fetch, schema
\* patch, page fetch, page write) is attempted exactly once, a request
\* fails exactly when the transport fails, a timeout surfaces as
\* RequestTimeoutError, and the failed requests are reported once each, in
\* the order they were made.
C6_NoRetry ==
    /\ \A i \in 1..Len(last.requests) :
          /\ last.requests[i].attempts = 1
          /\ (last.requests[i].error # "none") <=> (last.requests[i].send # "ok")
          /\ last.requests[i].send = "timeout"
                => last.requests[i].error = "RequestTimeoutError"
    /\ LET reported == SelectSeq(last.reports, LAMBDA r : r.error \in RequestErrors)
           failed == SelectSeq(last.requests, LAMBDA q : q.error # "none")
       IN /\ Len(reported) = Len(failed)
          /\ \A i \in 1..Len(failed) : reported[i].error = failed[i].error

C6_Witness ==
    /\ last.op = "add_row"
    /\ Len(last.requests) = 2
    /\ last.requests[1].endpoint = "databases.update"
    /\ last.requests[1].send = "timeout"
    /\ last.requests[2].send = "status_error"
    /\ Len(last.reports) = 2
    /\ last.returned = "empty"

\* C7: when the describe-database call of the constructor fails the session
\* is created all the same, with an empty schema, and a later add_row or
\* update_row then treats every field as new: all of them are in new_fields
\* and in the schema patch request.
C7_FetchFailureEmptySchema ==
    /\ (last.op = "init" /\ last.requests[1].error # "none") =>
          /\ phase = "ready"
          /\ last.raised = "none"
          /\ ~fetchOk
          /\ schema = EmptyDict
    /\ (RowWritten /\ ~fetchOk /\ last.schemaBefore = EmptyDict) =>
          /\ DOMAIN last.new_fields = DOMAIN last.kwargs
          /\ last.kwargs # EmptyDict =>
                /\ PatchIssued
                /\ DOMAIN PatchRequest.properties = DOMAIN last.kwargs

C7_Witness ==
    /\ RowWritten
    /\ ~fetchOk
    /\ last.schemaBefore = EmptyDict
    /\ DOMAIN last.kwargs = {"Name", "Priority"}
    /\ DOMAIN PatchRequest.properties = {"Name", "Priority"}

\* C8: after a schema patch request that succeeded the cached schema is the
\* schema before the call plus one entry {type: kind}, without options, for
\* each patched name; every entry cached before is kept, and no
\* describe-database request is made.
C8_PatchMergesCache ==
    (PatchIssued /\ PatchRequest.error = "none") =>
        /\ DOMAIN schema =
              (DOMAIN last.schemaBefore) \cup (DOMAIN PatchRequest.properties)
        /\ \A n \in DOMAIN last.schemaBefore : schema[n] = last.schemaBefore[n]
        /\ \A n \in DOMAIN PatchRequest.properties :
              /\ PatchRequest.properties[n].type = last.new_fields[n]
              /\ schema[n] = [type |-> last.new_fields[n], options |-> <<>>]
        /\ \A i \in 1..Len(last.requests) :
              last.requests[i].endpoint # "databases.retrieve"

C8_Witness ==
    /\ PatchIssued
    /\ PatchRequest.error = "none"
    /\ last.schemaBefore = TaskSchema
    /\ DOMAIN schema = {"Name", "Priority", "Tags", "Notes"}
    /\ schema["Notes"].type = "number"

\* A field of the last call that is not in the schema and has no declared
\* type.
Undeclared(k) ==
    /\ k \in DOMAIN last.kwargs
    /\ k \notin DOMAIN last.schemaBefore
    /\ k \notin DOMAIN last.property_types.map

\* C9 as stated: a field that is not in the schema and has no declared type
\* is added to the cached schema as rich_text and encoded as rich_text,
\* whether the schema patch succeeds or fails.
C9_AddedRegardless ==
    RowWritten =>
        \A k \in DOMAIN last.kwargs :
            Undeclared(k) =>
                /\ k \in DOMAIN schema
                /\ schema[k].type = "rich_text"
                /\ PageRequest.properties[k].kind = "rich_text"

\* C9 amended: every schema patch request of the call carries such a field
\* as rich_text and every page request carries it encoded as rich_text,
\* whether the patch succeeds or fails; the field is in the cached schema as
\* rich_text after a patch request that succeeded, and the cached schema is
\* left as it was by a call whose patch request failed or was never made.
C9_AddedOnSuccess ==
    last.op \in RowOps =>
        \A k \in DOMAIN last.kwargs :
            Undeclared(k) =>
                /\ RowWritten => PatchIssued /\ PageIssued
                /\ PatchIssued => PatchRequest.properties[k] = Def("rich_text", <<>>)
                /\ PageIssued =>
                      PageRequest.properties[k]
                         = Wire("rich_text", "str", <<StrOf(last.kwargs[k])>>)
                /\ (PatchIssued /\ PatchRequest.error = "none") =>
                      k \in DOMAIN schema /\ schema[k] = Def("rich_text", <<>>)
                /\ ~(PatchIssued /\ PatchRequest.error = "none") =>
                      schema = last.schemaBefore

C9_Witness ==
    /\ RowWritten
    /\ Undeclared("Notes")
    /\ PatchRequest.error # "none"
    /\ PageRequest.properties["Notes"].kind = "rich_text"
    /\ "Notes" \notin DOMAIN schema
    /\ last.returned = "response"

\* C10: in add_row and update_row a field that is not in the cached schema
\* gets the kind property_types declares for it, rich_text when it declares
\* none (property_types None or empty included); a field that is in the
\* schema gets the schema's kind, never the declared one. That kind is the
\* one patched and the one the field is formatted with.
C10_Expected(k) ==
    IF k \in DOMAIN last.schemaBefore THEN last.schemaBefore[k].type
    ELSE IF k \in DOMAIN last.property_types.map THEN last.property_types.map[k]
    ELSE "rich_text"

C10_KindResolution ==
    RowWritten =>
        \A k \in DOMAIN last.kwargs :
            /\ last.kinds[k] = C10_Expected(k)
            /\ PageRequest.properties[k]
                  = FormatProperty(C10_Expected(k), last.kwargs[k]).wire
            /\ k \notin DOMAIN last.schemaBefore =>
                  PatchRequest.properties[k].type = C10_Expected(k)
            /\ k \in DOMAIN last.schemaBefore =>
                  ~(PatchIssued /\ k \in DOMAIN PatchRequest.properties)

C10_Witness ==
    /\ RowWritten
    /\ last.schemaBefore = TaskSchema
    /\ DOMAIN last.kwargs = {"Priority", "Notes"}
    /\ last.property_types.given
    /\ DOMAIN last.property_types.map = {"Notes", "Priority"}
    /\ PageRequest.properties["Priority"].kind = "select"
    /\ PageRequest.properties["Notes"].kind = "multi_select"
    /\ PatchRequest.properties["Notes"].type = "multi_select"

\* The fields of the last call that were not in the cached schema when it
\* was made.
Unknown == (DOMAIN last.kwargs) \ (DOMAIN last.schemaBefore)

\* How many schema patch requests the last call made.
PatchCount ==
    Cardinality({i \in 1..Len(last.requests) :
                    last.requests[i].endpoint = "databases.update"})

\* The kinds _format_property has a branch for (crud.py:118-137).
WritableKinds ==
    {"title", "rich_text", "select", "multi_select", "date", "checkbox",
     "number", "url", "email", "phone_number"}

\* C11: every add_row / update_row call with at least one field that is not
\* in the cached schema issues exactly one schema patch request, which
\* carries all of the call's unknown fields and comes before the page
\* request; a call without unknown fields issues no schema patch request.
C11_OnePatchBeforeWrite ==
    last.op \in RowOps =>
        /\ Unknown # {} =>
              /\ PatchCount = 1
              /\ Len(last.requests) = 2
              /\ last.requests[1].endpoint = "databases.update"
              /\ DOMAIN last.requests[1].properties = Unknown
              /\ last.requests[2].endpoint \in PageEndpoints
        /\ Unknown = {} => PatchCount = 0

\* C12: a schema patch request that failed does not stop the write: the
\* page request follows it, and its properties hold every field of the
\* call, a known field formatted with the kind the schema had for it and an
\* unknown one with its resolved kind.
C12_FailedPatchNonFatal ==
    (PatchIssued /\ PatchRequest.error # "none") =>
        /\ last.raised = "none"
        /\ Len(last.requests) = 2
        /\ PageIssued
        /\ DOMAIN PageRequest.properties = DOMAIN last.kwargs
        /\ \A k \in DOMAIN last.kwargs :
              /\ PageRequest.properties[k]
                    = FormatProperty(C10_Expected(k), last.kwargs[k]).wire
              /\ C10_Expected(k) \in WritableKinds =>
                    PageRequest.properties[k].kind = C10_Expected(k)
        /\ last.returned = IF PageRequest.error = "none" THEN "response" ELSE "empty"

C12_Witness ==
    /\ PatchIssued
    /\ PatchRequest.error = "HTTPResponseError"
    /\ last.schemaBefore = TaskSchema
    /\ DOMAIN last.kwargs = {"Priority", "Notes"}
    /\ PageIssued
    /\ PageRequest.error = "none"
    /\ PageRequest.properties["Priority"].kind = "select"
    /\ PageRequest.properties["Notes"].kind = "number"
    /\ last.returned = "response"
    /\ schema = TaskSchema

(***************************************************************************)
(* Property codec: claims                                                  *)
(***************************************************************************)
Encoders == {"add_row", "update_row", "generate_valid_data"}

\* A dict without one key.
Without(d, k) == [n \in (DOMAIN d) \ {k} |-> d[n]]

\* Field k of the last call is a select of the cached schema that declares
\* options, and its value is none of them.
RejectedSelect(k) ==
    /\ k \in DOMAIN last.kwargs
    /\ k \in DOMAIN last.schemaBefore
    /\ last.schemaBefore[k].type = "select"
    /\ last.schemaBefore[k].options # <<>>
    /\ \A i \in 1..Len(last.schemaBefore[k].options) :
          last.schemaBefore[k].options[i] # StrOf(last.kwargs[k])

\* C13: generate_valid_data leaves a select field out of its output when
\* the value is not among the declared options of a non-empty option set;
\* that field raises nothing, and the call raises and returns exactly what
\* it does for the same data without that field.
C13_SelectDropped ==
    last.op = "generate_valid_data" =>
        \A k \in DOMAIN last.kwargs :
            RejectedSelect(k) =>
                /\ k \notin DOMAIN last.properties
                /\ last.raised = ValidDataError(last.schemaBefore, Without(last.kwargs, k))
                /\ last.raised = "none" =>
                      /\ last.returned = "valid_data"
                      /\ last.properties
                            = ValidData(last.schemaBefore, Without(last.kwargs, k))

C13_Witness ==
    /\ last.op = "generate_valid_data"
    /\ last.schemaBefore = TaskSchema
    /\ DOMAIN last.kwargs = {"Name", "Priority"}
    /\ last.kwargs["Priority"] = PyStr("Medium")
    /\ last.raised = "none"
    /\ DOMAIN last.properties = {"Name"}
    /\ last.properties["Name"] = Wire("title", "str", <<"Ship v2">>)

\* C14: on the write path a select value that is not among the declared
\* options of the cached schema is never sent: with TaskSchema and
\* Priority = "Medium" the page request is issued without Priority, and no
\* page request carries a select property whose name is outside a non-empty
\* option set.
C14_WriteDropsUnknownOption ==
    last.op \in RowOps =>
        /\ (last.schemaBefore = TaskSchema /\ RejectedSelect("Priority")
            /\ "Notes" \notin DOMAIN last.kwargs) => PageIssued
        /\ PageIssued =>
              \A k \in DOMAIN last.kwargs :
                  RejectedSelect(k) => k \notin DOMAIN PageRequest.properties

\* The row and the wire properties of the "Ship v2" scenario.
ShipRow ==
    [n \in {"Name", "Priority", "Tags"} |->
        CASE n = "Name" -> PyStr("Ship v2")
          [] n = "Priority" -> PyStr("High")
          [] OTHER -> PyList(<<"api", "infra">>)]
ShipWire ==
    [n \in {"Name", "Priority", "Tags"} |->
        CASE n = "Name" -> Wire("title", "str", <<"Ship v2">>)
          [] n = "Priority" -> Wire("select", "str", <<"High">>)
          [] OTHER -> Wire("multi_select", "list", <<"api", "infra">>)]

\* C15: with TaskSchema and the row {Name: "Ship v2", Priority: "High",
\* Tags: ["api", "infra"]} both encoders, generate_valid_data and add_row /
\* update_row, produce exactly the title, the select High and the
\* multi_select api, infra in that order.
C15_ShipScenario ==
    (last.op \in Encoders /\ last.schemaBefore = TaskSchema /\ last.kwargs = ShipRow) =>
        /\ last.raised = "none"
        /\ last.properties = ShipWire
        /\ last.op \in RowOps => PageIssued /\ PageRequest.properties = ShipWire

\* Field k of the last call went through an encoder: every field of add_row
\* / update_row, the fields of the schema in generate_valid_data.
Encoded(k) ==
    /\ last.op \in Encoders
    /\ k \in DOMAIN last.kwargs
    /\ last.op = "generate_valid_data" => k \in DOMAIN last.schemaBefore

\* C16: both encoders turn a list given for a multi_select field into one
\* name per element, in the order of the list, and any other value into the
\* empty multi_select list.
C16_MultiSelectEncoding ==
    (last.op \in Encoders /\ last.raised = "none") =>
        \A k \in DOMAIN last.kwargs :
            (Encoded(k) /\ C10_Expected(k) = "multi_select") =>
                /\ k \in DOMAIN last.properties
                /\ last.properties[k]
                      = Wire("multi_select", "list",
                             IF last.kwargs[k].type = "list"
                             THEN last.kwargs[k].items ELSE <<>>)

\* C17: a field of a kind the encoders do not implement is left out of the
\* properties, never sent as another kind, and the write goes on without
\* it.
C17_UnsupportedDropped ==
    (last.op \in Encoders /\ last.raised = "none") =>
        /\ \A k \in DOMAIN last.kwargs :
              (Encoded(k) /\ C10_Expected(k) \notin WritableKinds) =>
                  k \notin DOMAIN last.properties
        /\ last.op \in RowOps => PageIssued

\* Field k of the last call is a number whose value float() rejects.
NotNumeric(k) ==
    /\ Encoded(k)
    /\ C10_Expected(k) = "number"
    /\ FloatOf(last.kwargs[k]).error # "none"

\* C18: a value that cannot be converted fails for its field only: no
\* exception leaves the encoder, the field is left out, the other fields
\* are encoded as without it and the page request is issued.
C18_ConversionFailureLocal ==
    last.op \in Encoders =>
        /\ last.raised = "none"
        /\ \A k \in DOMAIN last.kwargs :
              NotNumeric(k) =>
                  /\ k \notin DOMAIN last.properties
                  /\ \A n \in DOMAIN last.properties :
                        last.op \in RowOps =>
                            last.properties[n]
                               = FormatProperty(C10_Expected(n), last.kwargs[n]).wire
        /\ last.op \in RowOps => PageIssued

(***************************************************************************)
(* DatabaseQuery.query: claims                                             *)
(***************************************************************************)
\* The page a record was decoded from: record_data["id"] is the page's id.
PageOf(record) ==
    CHOOSE e \in Entries \cup CodecEntries : PyStr(e.id) = record["id"]

\* C19: every record query returns has the keys id and title and one key
\* for every property of the cached schema, whatever its kind and whatever
\* the page carries; no page makes query fail because it lacks a property.
C19_RecordKeys ==
    last.op = "query" =>
        /\ \A i \in 1..Len(last.records) :
              {"id", "title"} \cup (DOMAIN last.schemaBefore)
                 \subseteq DOMAIN last.records[i]
        /\ \A i \in 1..Len(last.reports) : last.reports[i].error # "KeyError"

\* The wire value of kind `kind` for property n of page e is absent (no
\* such property, or the property holds another kind) or empty (null, or
\* an empty list).
AbsentOrEmpty(e, n, kind) ==
    \/ n \notin DOMAIN e.properties
    \/ /\ n \in DOMAIN e.properties
       /\ \/ e.properties[n].kind # kind
          \/ e.properties[n].type = "null"
          \/ e.properties[n].items = <<>>

ScalarKinds == {"rich_text", "select", "url", "email", "phone_number", "number", "date"}
ListKinds == {"multi_select", "people"}

\* C20: in every record query returns, an absent or empty rich_text,
\* select, url, email, phone_number, number or date decodes to the
\* placeholder, an absent or empty multi_select or people to the list of the
\* placeholder alone, and a checkbox to one of its two displays, the "no"
\* display when it is absent or false; the key is always there.
C20_DecodeFallbacks ==
    last.op = "query" =>
        \A i \in 1..Len(last.records) :
            \A n \in (DOMAIN last.schemaBefore) \ {"id", "title"} :
                LET record == last.records[i]
                    e == PageOf(record)
                    kind == last.schemaBefore[n].type
                IN /\ (kind \in ScalarKinds /\ AbsentOrEmpty(e, n, kind)) =>
                         n \in DOMAIN record /\ record[n] = PyStr(Placeholder)
                   /\ (kind \in ListKinds /\ AbsentOrEmpty(e, n, kind)) =>
                         n \in DOMAIN record /\ record[n] = PyList(<<Placeholder>>)
                   /\ kind = "checkbox" =>
                         /\ n \in DOMAIN record
                         /\ record[n] \in {PyStr(Checked), PyStr(Unchecked)}
                         /\ record[n] # PyStr(Placeholder)
                         /\ (AbsentOrEmpty(e, n, kind)
                             \/ e.properties[n].items = <<"False">>) =>
                               record[n] = PyStr(Unchecked)

C20_Witness ==
    /\ last.op = "query"
    /\ last.schemaBefore = ContactSchema
    /\ Len(last.records) = 2
    /\ last.records[1]["id"] = PyStr("page-6")
    /\ last.records[1]["Body"] = PyStr(Placeholder)
    /\ last.records[1]["Stage"] = PyStr(Placeholder)
    /\ last.records[1]["Cost"] = PyStr(Placeholder)
    /\ last.records[1]["Due"] = PyStr(Placeholder)
    /\ last.records[1]["Labels"] = PyList(<<Placeholder>>)
    /\ last.records[1]["Done"] = PyStr(Unchecked)
    /\ last.records[2]["id"] = PyStr("page-7")
    /\ last.records[2]["Site"] = PyStr(Placeholder)
    /\ last.records[2]["Owner"] = PyList(<<Placeholder>>)
    /\ last.records[2]["Done"] = PyStr(Unchecked)

(***************************************************************************)
(* Round trip, reads and the schema over a session: claims                 *)
(***************************************************************************)
\* The display form of a native value written as `kind`.
Display(kind, v) ==
    CASE kind \in {"title", "rich_text", "select", "url", "email", "phone_number"} ->
            PyStr(StrOf(v))
      [] kind = "multi_select" -> PyList(v.items)
      [] kind = "number" -> [type |-> "float", items |-> <<FloatOf(v).text>>]
      [] kind = "checkbox" -> PyStr(Checked)
      [] OTHER -> v

\* Values the codec can carry as `kind`: a list for multi_select, a number
\* for number, anything for the other kinds it writes.
RoundTrippable(kind, v) ==
    /\ kind \in WritableKinds
    /\ kind = "multi_select" => v.type = "list"
    /\ kind = "number" => FloatOf(v).error = "none"

\* C21: decoding, with query's branch for the kind, the wire property that
\* add_row / update_row sent for a round-trippable value gives back the
\* value's display form, for every kind the codec writes and whatever the
\* property is called (a title property included).
C21_RoundTrip ==
    (RowWritten /\ PageIssued) =>
        \A k \in DOMAIN last.kwargs :
            RoundTrippable(C10_Expected(k), last.kwargs[k]) =>
                LET page == PageRequest.properties
                    d == DecodeField(C10_Expected(k), page, k, TitleValue(page).text)
                IN /\ d.set
                   /\ d.error = "none"
                   /\ d.value = Display(C10_Expected(k), last.kwargs[k])

\* C22: a read follows the pagination: when the response to the query
\* request announces more results, query asks for the next page, so that
\* its records cover every page and not only the first.
C22_ReadsEveryPage ==
    (last.op = "query" /\ last.requests[1].error = "none" /\ last.has_more) =>
        /\ Len(last.requests) > 1
        /\ \A i \in 1..Len(last.requests) :
              last.requests[i].endpoint = "databases.query"

\* The last call made a schema patch request that succeeded.
PatchSucceeded == PatchIssued /\ PatchRequest.error = "none"

\* C23: the cached schema is set when the session is created and changes
\* afterwards only in an add_row / update_row call whose schema patch
\* request succeeded, which adds the patched fields to it; query,
\* generate_valid_data and a write whose fields are all in the schema leave
\* it as it was.
C23_SchemaFrame ==
    [][(schema' # schema) =>
          \/ phase = "new" /\ phase' = "ready" /\ last'.op = "init"
          \/ /\ phase = "ready"
             /\ last'.op \in RowOps
             /\ last'.new_fields # EmptyDict
             /\ last'.requests[1].endpoint = "databases.update"
             /\ last'.requests[1].error = "none"
             /\ schema' = DictUpdate(schema, FormattedProperties(last'.new_fields))]_vars

C23_Witness ==
    /\ RowWritten
    /\ last.schemaBefore = TaskSchema
    /\ DOMAIN last.kwargs = {"Name", "Priority", "Tags"}
    /\ last.new_fields = EmptyDict
    /\ ~PatchIssued
    /\ PageIssued
    /\ schema = TaskSchema

\* C27: over a session a field is in the schema patch request of a write
\* exactly when it is not in the cached schema at the time of the call: a
\* field a successful patch added is not patched again and is written with
\* the cached kind whatever type is declared for it, and a failed patch
\* leaves the cached schema as before the call.
C27_PatchedWhenUnknown ==
    last.op \in RowOps =>
        /\ \A k \in DOMAIN last.kwargs :
              /\ (k \notin DOMAIN last.schemaBefore)
                    <=> (PatchIssued /\ k \in DOMAIN PatchRequest.properties)
              /\ (k \in DOMAIN last.schemaBefore /\ PageIssued) =>
                    PageRequest.properties[k]
                       = FormatProperty(last.schemaBefore[k].type, last.kwargs[k]).wire
        /\ ~PatchSucceeded => schema = last.schemaBefore

\* C28: the schema patch and the page write are not atomic: when the patch
\* request succeeded and the page request after it failed, the call returns
\* an empty mapping, raises nothing, and the patched fields stay in the
\* cached schema.
C28_PatchNotRolledBack ==
    (PatchSucceeded /\ PageIssued /\ PageRequest.error # "none") =>
        /\ last.raised = "none"
        /\ last.returned = "empty"
        /\ last.new_fields # EmptyDict
        /\ \A k \in DOMAIN last.new_fields :
              k \in DOMAIN schema /\ schema[k] = Def(last.new_fields[k], <<>>)
        /\ schema = DictUpdate(last.schemaBefore, FormattedProperties(last.new_fields))

C28_Witness ==
    /\ PatchSucceeded
    /\ PageIssued
    /\ PageRequest.error = "RequestTimeoutError"
    /\ last.schemaBefore = TaskSchema
    /\ DOMAIN last.new_fields = {"Notes"}
    /\ "Notes" \in DOMAIN schema
    /\ last.returned = "empty"

\* The entries of the last query response that have properties.
WithProperties == SelectSeq(last.results, LAMBDA e : e.properties # EmptyDict)

\* The query request of the last call failed, or an entry of its response
\* cannot be decoded.
QueryFailed ==
    \/ last.requests[1].error # "none"
    \/ \E i \in 1..Len(last.results) :
          DecodeEntry(last.schemaBefore, last.results[i]).error # "none"

\* C29: query raises nothing and returns a list: the empty list, with one
\* error report, when the request failed or an entry could not be decoded,
\* even if entries before it were decoded; otherwise one record for each
\* entry that has properties, in the order of the response, entries
\* without properties being skipped.
C29_QueryAllOrNothing ==
    last.op = "query" =>
        /\ last.raised = "none"
        /\ last.returned = "list"
        /\ Len(last.requests) = 1
        /\ QueryFailed => last.records = <<>> /\ Len(last.reports) = 1
        /\ ~QueryFailed =>
              /\ last.reports = <<>>
              /\ Len(last.records) = Len(WithProperties)
              /\ \A i \in 1..Len(WithProperties) :
                    /\ last.records[i]["id"] = PyStr(WithProperties[i].id)
                    /\ last.records[i]
                          = DecodeEntry(last.schemaBefore, WithProperties[i]).record

C29_Witness ==
    /\ last.op = "query"
    /\ last.schemaBefore = ContactSchema
    /\ last.results = <<BarePage, NameOnlyPage>>
    /\ Len(last.records) = 1
    /\ last.records[1]["id"] = PyStr("page-7")
    /\ last.reports = <<>>

(***************************************************************************)
(* Decorated classes (notion_sugar/core/decorators.py, core/fields.py)     *)
(***************************************************************************)
\* fields.py:9-22  Field(type, options=None, required=False).  The options
\* are only tested for truth and for membership, so None and [] are both <<>>.
Field(kind, opts, req) == [type |-> kind, options |-> opts, required |-> req]

\* `value in list`
InList(value, list) == \E i \in 1..Len(list) : list[i] = value

\* All dicts with keys among `names` and values in `values` (**kwargs).
Kwargs(names, values) == UNION {[D -> values] : D \in SUBSET names}

\* Classes given to @Page: `fields` are the Field attributes of the class
\* body in declaration order (cls.__dict__), `field` their Field objects,
\* `init` the attributes the class's own __init__(self) sets.
TitlePage ==
    [fields |-> <<"title">>,
     field |-> [title |-> Field("title", <<>>, TRUE)],
     init |-> EmptyDict]

StatusPage ==
    [fields |-> <<"status">>,
     field |-> [status |-> Field("select", <<"Done", "In Progress">>, FALSE)],
     init |-> EmptyDict]

TaskPage ==
    [fields |-> <<"title", "status", "stage">>,
     field |-> [title |-> Field("title", <<>>, TRUE),
                status |-> Field("select", <<"Done", "In Progress">>, TRUE),
                stage |-> Field("select", <<>>, FALSE)],
     init |-> EmptyDict]

DraftPage ==
    [fields |-> <<"title", "status">>,
     field |-> [title |-> Field("title", <<>>, TRUE),
                status |-> Field("select", <<"Done", "In Progress">>, FALSE)],
     init |-> [title |-> "Untitled"]]

PageClassNames == {"TitlePage", "StatusPage", "TaskPage", "DraftPage"}

PageClass(name) ==
    CASE name = "TitlePage" -> TitlePage
      [] name = "StatusPage" -> StatusPage
      [] name = "TaskPage" -> TaskPage
      [] name = "DraftPage" -> DraftPage

\* decorators.py:36-46  the attributes of the instance once the Fields are
\* set to None, the class's own __init__ has run and the kwargs are set
PageAttrs(cls, kwargs) ==
    DictUpdate(DictUpdate([n \in {cls.fields[i] : i \in 1..Len(cls.fields)} |-> None],
                          cls.init),
               kwargs)

\* Mutant: a select Field is checked against its options even when it has
\* none.
FieldErrorEmptyOptions(field_name, field_value, value) ==
    IF field_value.required /\ value = None
        THEN "ValidationError: Required field " \o field_name \o " is not set"
    ELSE IF value # None /\ field_value.type = "select"
            /\ ~InList(value, field_value.options)
        THEN "ValidationError: Invalid value for " \o field_name
    ELSE "none"

\* decorators.py:51-58  the check of one Field (the message of an invalid
\* value goes on with the list of options)
FieldError(field_name, field_value, value) ==
    IF field_value.required /\ value = None
        THEN "ValidationError: Required field " \o field_name \o " is not set"
    ELSE IF value # None /\ field_value.type = "select"
            /\ field_value.options # <<>>
            /\ ~InList(value, field_value.options)
        THEN "ValidationError: Invalid value for " \o field_name
    ELSE "none"

\* decorators.py:49-58  the validation loop from the i-th Field on: the
\* first failing Field raises
RECURSIVE PageValidation(_, _, _)
PageValidation(cls, attrs, i) ==
    IF i > Len(cls.fields) THEN "none"
    ELSE LET field_name == cls.fields[i]
              error == FieldError(field_name, cls.field[field_name],
                                  attrs[field_name])
         IN IF error # "none" THEN error
            ELSE PageValidation(cls, attrs, i + 1)

\* decorators.py:35-58  new_init of a @Page class
PageNewInit(name, kwargs) ==
    LET cls == PageClass(name)
        attrs == PageAttrs(cls, kwargs)
        error == PageValidation(cls, attrs, 1)
    IN [decorator |-> "Page", cls |-> name, kwargs |-> kwargs,
        raised |-> error,
        attrs |-> IF error = "none" THEN attrs ELSE EmptyDict]

\* Classes given to @Database: `annotations` is cls.__annotations__, `body`
\* the class attributes (an annotated name with a value in the class body
\* is one), `init` the attributes the class's own __init__(self) sets.
TestDatabase ==
    [annotations |-> {"title", "description"},
     body |-> EmptyDict,
     init |-> EmptyDict]

TodoDatabase ==
    [annotations |-> {"title", "status"},
     body |-> [status |-> "Todo"],
     init |-> EmptyDict]

LogDatabase ==
    [annotations |-> {"title", "description"},
     body |-> EmptyDict,
     init |-> [description |-> "log"]]

DatabaseClassNames == {"TestDatabase", "TodoDatabase", "LogDatabase"}

DatabaseClass(name) ==
    CASE name = "TestDatabase" -> TestDatabase
      [] name = "TodoDatabase" -> TodoDatabase
      [] name = "LogDatabase" -> LogDatabase

\* Mutant: every keyword argument is set on the instance.
DatabaseAttrsSetAll(cls, kwargs) ==
    LET missing == {n \in cls.annotations :
                        n \notin DOMAIN cls.init /\ n \notin DOMAIN cls.body}
    IN DictUpdate(DictUpdate(cls.init, [n \in missing |-> None]), kwargs)

\* decorators.py:81-87  the instance attributes: the class's own __init__,
\* then None for every annotated name the instance has no attribute for
\* (hasattr also finds class attributes), then the annotated kwargs
DatabaseAttrs(cls, kwargs) ==
    LET missing == {n \in cls.annotations :
                        n \notin DOMAIN cls.init /\ n \notin DOMAIN cls.body}
    IN DictUpdate(DictUpdate(cls.init, [n \in missing |-> None]),
                  [n \in (DOMAIN kwargs) \cap cls.annotations |-> kwargs[n]])

\* decorators.py:80-87  new_init of a @Database class
DatabaseNewInit(name, kwargs) ==
    [decorator |-> "Database", cls |-> name, kwargs |-> kwargs,
     raised |-> "none", attrs |-> DatabaseAttrs(DatabaseClass(name), kwargs)]

\* An instance of a @Page class is made.
ConstructPage ==
    /\ made.decorator = "none"
    /\ \E name \in PageClassNames,
          kwargs \in Kwargs({"title", "status", "stage", "note"},
                            {None, "", "Done", "Invalid"}) :
         made' = PageNewInit(name, kwargs)
    /\ UNCHANGED <<sugar, session>>
    /\ UNCHANGED <<pagVars, dqVars, clientVars>>

\* An instance of a @Database class is made.
ConstructDatabase ==
    /\ made.decorator = "none"
    /\ \E name \in DatabaseClassNames,
          kwargs \in Kwargs({"title", "description", "status", "note"},
                            {None, "", "Test"}) :
         made' = DatabaseNewInit(name, kwargs)
    /\ UNCHANGED <<sugar, session>>
    /\ UNCHANGED <<pagVars, dqVars, clientVars>>

\* The caller is done with the instance, or with the error.
Discard ==
    /\ made.decorator # "none"
    /\ made' = NoObject
    /\ UNCHANGED <<sugar, session>>
    /\ UNCHANGED <<pagVars, dqVars, clientVars>>

DecoratorNext == ConstructPage \/ ConstructDatabase \/ Discard

DecoratorSpec == DqSpecInit /\ [][DecoratorNext]_vars

(***************************************************************************)
(* Decorated classes: claims                                               *)
(***************************************************************************)
\* hasattr(obj, n) and getattr(obj, n) on an instance with attributes
\* `attrs` of a class with attributes `body`
HasAttr(attrs, body, n) == n \in DOMAIN attrs \/ n \in DOMAIN body

GetAttr(attrs, body, n) == IF n \in DOMAIN attrs THEN attrs[n] ELSE body[n]

\* The value of attribute n once the keyword arguments are applied.
AfterKwargs(cls, kwargs, n) ==
    IF n \in DOMAIN kwargs THEN kwargs[n]
    ELSE IF n \in DOMAIN cls.init THEN cls.init[n]
    ELSE None

\* C24: constructing an instance of a @Page class raises ValidationError
\* exactly when, once the keyword arguments are applied, a required Field is
\* None or a select Field with a non-empty options list has a non-None value
\* outside its options; otherwise the instance exists and every keyword
\* argument reads back as an attribute with the value given.
C24_PageValidation ==
    made.decorator = "Page" =>
        LET cls == PageClass(made.cls)
            value(n) == AfterKwargs(cls, made.kwargs, n)
            names == {cls.fields[i] : i \in 1..Len(cls.fields)}
            offending ==
                \E n \in names :
                    \/ cls.field[n].required /\ value(n) = None
                    \/ /\ cls.field[n].type = "select"
                       /\ cls.field[n].options # <<>>
                       /\ value(n) # None
                       /\ ~InList(value(n), cls.field[n].options)
        IN /\ offending <=>
                (made.raised # "none"
                 /\ SubSeq(made.raised, 1, Len("ValidationError")) = "ValidationError")
           /\ ~offending =>
                /\ made.raised = "none"
                /\ \A k \in DOMAIN made.kwargs :
                     /\ k \in DOMAIN made.attrs
                     /\ made.attrs[k] = made.kwargs[k]

\* C24 witness: a construction that succeeded with the required Field given
\* as the empty string and the select Field without options given a value.
C24_Witness ==
    /\ made.decorator = "Page"
    /\ made.cls = "TaskPage"
    /\ made.raised = "none"
    /\ DOMAIN made.kwargs = {"title", "status", "stage", "note"}
    /\ made.kwargs["title"] = ""
    /\ made.kwargs["stage"] = "Invalid"

\* The original statement of C25: an annotated field reads as the keyword
\* value when one was passed and as None otherwise; other keyword arguments
\* are not set.
C25_NoneUnlessPassed ==
    made.decorator = "Database" =>
        LET cls == DatabaseClass(made.cls)
        IN /\ \A n \in cls.annotations :
                /\ HasAttr(made.attrs, cls.body, n)
                /\ GetAttr(made.attrs, cls.body, n) =
                      IF n \in DOMAIN made.kwargs THEN made.kwargs[n] ELSE None
           /\ \A k \in (DOMAIN made.kwargs) \ cls.annotations :
                ~HasAttr(made.attrs, cls.body, k)

\* C25 (amended): after constructing an instance of a @Database class, every
\* annotated field reads as the keyword value when one was passed for it,
\* otherwise as the value the class's own __init__ or the class body gave
\* it, and as None when neither gave one; a keyword argument that is not an
\* annotated field leaves the instance as it would be without it.
C25_KeptUnlessPassed ==
    made.decorator = "Database" =>
        LET cls == DatabaseClass(made.cls)
        IN /\ \A n \in cls.annotations :
                /\ HasAttr(made.attrs, cls.body, n)
                /\ GetAttr(made.attrs, cls.body, n) =
                      IF n \in DOMAIN made.kwargs THEN made.kwargs[n]
                      ELSE IF n \in DOMAIN cls.init THEN cls.init[n]
                      ELSE IF n \in DOMAIN cls.body THEN cls.body[n]
                      ELSE None
           /\ \A k \in (DOMAIN made.kwargs) \ cls.annotations :
                /\ k \in DOMAIN made.attrs <=> k \in DOMAIN cls.init
                /\ k \in DOMAIN cls.init => made.attrs[k] = cls.init[k]

\* C25 witness: a class with a class-level value for an annotated field,
\* instantiated without that field and with a keyword that is not annotated.
C25_Witness ==
    /\ made.decorator = "Database"
    /\ made.cls = "TodoDatabase"
    /\ DOMAIN made.kwargs = {"title", "note"}
    /\ made.kwargs["title"] = "Test"
    /\ made.attrs = [title |-> "Test"]

(***************************************************************************)
(* Strings (str methods used by notion_client/helpers.py)                  *)
(***************************************************************************)
\* str.startswith(prefix)
StartsWith(s, prefix) ==
    Len(s) >= Len(prefix) /\ SubSeq(s, 1, Len(prefix)) = prefix

\* s[n:]
Drop(s, n) == SubSeq(s, n + 1, Len(s))

\* str.replace(sub, ""): every occurrence of sub, left to right, removed
RECURSIVE Remove(_, _)
Remove(s, sub) ==
    IF Len(s) < Len(sub) THEN s
    ELSE IF StartsWith(s, sub) THEN Remove(Drop(s, Len(sub)), sub)
    ELSE SubSeq(s, 1, 1) \o Remove(Drop(s, 1), sub)

\* str.strip(chars)
RECURSIVE Strip(_, _)
Strip(s, chars) ==
    IF s = "" THEN s
    ELSE IF SubSeq(s, 1, 1) \in chars THEN Strip(Drop(s, 1), chars)
    ELSE IF SubSeq(s, Len(s), Len(s)) \in chars
        THEN Strip(SubSeq(s, 1, Len(s) - 1), chars)
    ELSE s

\* The part of s before the first character that is in `stops` (all of s
\* when there is none): str.split(c)[0]
RECURSIVE Before(_, _)
Before(s, stops) ==
    IF s = "" \/ SubSeq(s, 1, 1) \in stops THEN ""
    ELSE SubSeq(s, 1, 1) \o Before(Drop(s, 1), stops)

\* The part of s from the first character that is in `stops` on ("" when
\* there is none).
RECURSIVE From(_, _)
From(s, stops) ==
    IF s = "" \/ SubSeq(s, 1, 1) \in stops THEN s
    ELSE From(Drop(s, 1), stops)

\* str.split("/")[-1]
RECURSIVE LastFragment(_)
LastFragment(s) ==
    IF From(s, {"/"}) = "" THEN s
    ELSE LastFragment(Drop(From(s, {"/"}), 1))

\* The lower-case form of one hexadecimal digit.
LowerHex(c) ==
    CASE c = "A" -> "a" [] c = "B" -> "b" [] c = "C" -> "c"
      [] c = "D" -> "d" [] c = "E" -> "e" [] c = "F" -> "f"
      [] OTHER -> c

RECURSIVE Lowered(_)
Lowered(s) ==
    IF s = "" THEN s ELSE LowerHex(SubSeq(s, 1, 1)) \o Lowered(Drop(s, 1))

\* int(hex, 16) succeeds on a string of hexadecimal digits.  (It also takes
\* a sign, a 0x prefix, underscores and surrounding blanks; no input here
\* has any.)
IsHex(s) ==
    \A i \in 1..Len(s) :
        LowerHex(SubSeq(s, i, i)) \in {"0", "1", "2", "3", "4", "5", "6", "7",
                                       "8", "9", "a", "b", "c", "d", "e", "f"}

(***************************************************************************)
(* NotionSugar (notion_sugar/core/client.py) and the validators of         *)
(* notion_client/helpers.py                                                *)
(***************************************************************************)
\* uuid.UUID(hex): the 32 digits of the string, or "" for a ValueError
UuidHex(value) ==
    LET hex == Remove(Strip(Remove(Remove(value, "urn:"), "uuid:"), {"{", "}"}), "-")
    IN IF Len(hex) = 32 /\ IsHex(hex) THEN Lowered(hex) ELSE ""

\* str(UUID): the digits in groups of 8-4-4-4-12
UuidStr(hex) ==
    SubSeq(hex, 1, 8) \o "-" \o SubSeq(hex, 9, 12) \o "-" \o SubSeq(hex, 13, 16)
    \o "-" \o SubSeq(hex, 17, 20) \o "-" \o SubSeq(hex, 21, 32)

\* urlparse(value).path: what follows the host, without query, fragment and
\* the parameters of the last segment
UrlPath(value) ==
    LET rest == Drop(From(value, {":"}), 3)
        path == Before(From(rest, {"/", "?", "#"}), {"?", "#"})
        segment == LastFragment(path)
    IN SubSeq(path, 1, Len(path) - Len(segment)) \o Before(segment, {";"})

\* Mutant: the text of a valid UUID is returned as it was given.
ValidateNotionIdAsGiven(value) ==
    IF StartsWith(value, "https://") \/ StartsWith(value, "http://")
        THEN [error |-> "none",
              value |-> Before(LastFragment(UrlPath(value)), {"?"})]
    ELSE IF UuidHex(Remove(value, "-")) = ""
        THEN [error |-> "ValueError", value |-> ""]
    ELSE [error |-> "none", value |-> value]

\* helpers.py:151-174  validate_notion_id -> [error, value]
ValidateNotionId(value) ==
    IF StartsWith(value, "https://") \/ StartsWith(value, "http://")
        THEN [error |-> "none",
              value |-> Before(LastFragment(UrlPath(value)), {"?"})]
    ELSE IF UuidHex(Remove(value, "-")) = ""
        THEN [error |-> "ValueError", value |-> ""]
    ELSE [error |-> "none", value |-> UuidStr(UuidHex(Remove(value, "-")))]

\* helpers.py:176-180  validate_auth_token -> [error, value]
ValidateAuthToken(token) ==
    IF ~(StartsWith(token, "secret_") \/ StartsWith(token, "v2_")
         \/ StartsWith(token, "ntn_"))
        THEN [error |-> "ValueError", value |-> ""]
    ELSE [error |-> "none", value |-> token]

\* The tokens given to NotionSugar(...).
Tokens ==
    {"secret_test_valid_token_123", "secret_", "v2_abc", "ntn_abc",
     "", "valid_token", "secret", "Secret_abc", "x-secret_abc", "v2", "ntn-abc"}

\* The ids given to db(...).
DatabaseIds ==
    {"8a8e5a45-c974-4cab-938b-31e6c8025bcb",
     "8a8e5a45c9744cab938b31e6c8025bcb",
     "8A8E5A45-C974-4CAB-938B-31E6C8025BCB",
     "8a8e5a45c974-4cab938b-31e6c8025bcb",
     "{8a8e5a45-c974-4cab-938b-31e6c8025bcb}",
     "urn:uuid:8a8e5a45-c974-4cab-938b-31e6c8025bcb",
     "invalid-id",
     "",
     "8a8e5a45-c974-4cab-938b-31e6c8025bc",
     "8a8e5a45-c974-4cab-938b-31e6c8025bcbb",
     "8a8e5a45-c974-4cab-938b-31e6c8025bcg",
     "www.notion.so/8a8e5a45c9744cab938b31e6c8025bcb",
     "https://www.notion.so/team/Tasks-8a8e5a45c9744cab938b31e6c8025bcb?v=1",
     "https://www.notion.so/8a8e5a45c9744cab938b31e6c8025bcb",
     "http://notion.so/"}

\* The Client object NotionSugar builds for a token: Client(auth=token).
ClientOf(auth) == "Client(auth=" \o auth \o ")"

\* client.py:29-43  NotionSugar.__init__; client_error is what Client(...)
\* raises ("none" when it returns).  str(e) of the token error is written
\* in English here.
NotionSugarInit(token, client_error) ==
    LET checked == ValidateAuthToken(token)
    IN IF checked.error # "none"
          THEN [NoSugar EXCEPT
                  !.state = "raised", !.token = token,
                  !.raised = "NotionSugarError",
                  !.message = "Failed to initialize client: "
                              \o "the token must start with secret_, v2_ or ntn_"]
       ELSE IF client_error # "none"
          THEN [NoSugar EXCEPT
                  !.state = "raised", !.token = token,
                  !.raised = "NotionSugarError",
                  !.message = "Failed to initialize client: " \o client_error]
       ELSE [NoSugar EXCEPT
               !.state = "ready", !.token = token,
               !.auth_token = checked.value,
               !.client = ClientOf(checked.value)]

\* NotionSugar(token)
NewSugar ==
    /\ sugar.state = "none"
    /\ \E token \in Tokens, client_error \in {"none", "Client error"} :
         sugar' = NotionSugarInit(token, client_error)
    /\ UNCHANGED <<made, session>>
    /\ UNCHANGED <<pagVars, dqVars, clientVars>>

\* client.py:45-62  sugar.db(database_id): the id is validated and a
\* DatabaseQuery is constructed on it, which fetches the schema
\* (crud.py:8-26) and swallows a failure of that call.
Db ==
    /\ sugar.state = "ready"
    /\ session.state = "none"
    /\ \E database_id \in DatabaseIds, send \in SendOutcomes,
          properties \in ServerSchemas :
         LET checked == ValidateNotionId(database_id)
         IN session' =
              IF checked.error # "none"
                 THEN [NoSession EXCEPT
                         !.state = "raised", !.argument = database_id,
                         !.raised = "NotionSugarError"]
              ELSE [NoSession EXCEPT
                      !.state = "returned", !.argument = database_id,
                      !.database_id = checked.value,
                      !.client = sugar.client,
                      !.schema = FetchSchema(send, properties),
                      !.reports =
                          IF Request(send).error = "none" THEN <<>>
                          ELSE <<Report("_fetch_schema", Request(send).error)>>]
    /\ UNCHANGED <<made, sugar>>
    /\ UNCHANGED <<pagVars, dqVars, clientVars>>

\* The caller is done with the session, or with the error.
Release ==
    /\ session.state # "none"
    /\ session' = NoSession
    /\ UNCHANGED <<made, sugar>>
    /\ UNCHANGED <<pagVars, dqVars, clientVars>>

SugarNext == NewSugar \/ Db \/ Release

SugarSpec == DqSpecInit /\ [][SugarNext]_vars

(***************************************************************************)
(* NotionSugar: claims                                                     *)
(***************************************************************************)
\* The tokens with one of the three prefixes, and the ids that are UUIDs
\* with the id each stands for, written out by hand.
PrefixedTokens == {"secret_test_valid_token_123", "secret_", "v2_abc", "ntn_abc"}

TasksId == "8a8e5a45-c974-4cab-938b-31e6c8025bcb"

UuidTexts ==
    {"8a8e5a45-c974-4cab-938b-31e6c8025bcb",
     "8a8e5a45c9744cab938b31e6c8025bcb",
     "8A8E5A45-C974-4CAB-938B-31E6C8025BCB",
     "8a8e5a45c974-4cab938b-31e6c8025bcb",
     "{8a8e5a45-c974-4cab-938b-31e6c8025bcb}",
     "urn:uuid:8a8e5a45-c974-4cab-938b-31e6c8025bcb"}

UrlTexts ==
    {"https://www.notion.so/team/Tasks-8a8e5a45c9744cab938b31e6c8025bcb?v=1",
     "https://www.notion.so/8a8e5a45c9744cab938b31e6c8025bcb",
     "http://notion.so/"}

MaxClients == 4

\* httpx.Client() / httpx.AsyncClient(): the id tells the objects apart
HttpClient(id, class) ==
    [id |-> id, class |-> "httpx." \o class, base_url |-> "", timeout |-> 5,
     headers |-> EmptyDict, state |-> "unopened"]

\* client.py:87-96  what the setter of `client` does to the HTTP client
Configured(opts, client) ==
    [client EXCEPT
       !.base_url = opts.base_url \o "/v1/",
       !.timeout = opts.timeout_ms \div 1000,
       !.headers =
           [h \in {"Notion-Version", "User-Agent"}
                  \cup (IF opts.auth \notin {None, ""} THEN {"Authorization"} ELSE {})
              |-> CASE h = "Notion-Version" -> "2022-06-28"
                    [] h = "User-Agent" -> "ramnes/notion-sdk-py@2.3.0"
                    [] h = "Authorization" -> "Bearer " \o opts.auth]]

\* Mutant: the first HTTP client of the list is deleted.
PoppedFirst(clients) == SubSeq(clients, 2, Len(clients))

\* client.py:174, 224  del self._clients[-1]
Popped(clients) == SubSeq(clients, 1, Len(clients) - 1)

\* client.py:82-83  the property `client`
ActiveClient(clients) == clients[Len(clients)]

\* client.py:56-72, 152-160, 202-210  Client(options) / AsyncClient(options),
\* with the options of client.py:47-52 (timeouts in whole seconds, the
\* Notion version left at its default)
NewClient ==
    /\ self_options.class = "none"
    /\ \E class \in {"Client", "AsyncClient"},
          auth \in {None, "", "secret_abc"},
          timeout_ms \in {60000, 30000},
          base_url \in {"https://api.notion.com", "https://test.notion.com"} :
         LET opts == [class |-> class, auth |-> auth,
                      timeout_ms |-> timeout_ms, base_url |-> base_url]
         IN /\ self_options' = opts
            /\ _clients' = Append(<<>>, Configured(opts, HttpClient(0, class)))
    /\ created' = 1
    /\ contexts' = <<>>
    /\ UNCHANGED <<pagVars, dqVars, sugarVars>>

\* client.py:162-165, 212-215  __enter__ / __aenter__: a new HTTP client is
\* configured and appended, then entered itself
Enter ==
    /\ self_options.class # "none"
    /\ created < MaxClients
    /\ LET client == Configured(self_options, HttpClient(created, self_options.class))
       IN /\ _clients' = Append(_clients, [client EXCEPT !.state = "opened"])
          /\ contexts' = Append(contexts,
                                [pushed |-> client.id,
                                 previous |-> ActiveClient(_clients).id])
    /\ created' = created + 1
    /\ UNCHANGED self_options
    /\ UNCHANGED <<pagVars, dqVars, sugarVars>>

\* client.py:167-174, 217-224  __exit__ / __aexit__ at the end of the
\* innermost with-block: the active HTTP client is exited and deleted
Exit ==
    /\ contexts # <<>>
    /\ _clients' = Popped(_clients)
    /\ contexts' = SubSeq(contexts, 1, Len(contexts) - 1)
    /\ UNCHANGED <<self_options, created>>
    /\ UNCHANGED <<pagVars, dqVars, sugarVars>>

\* client.py:176-178, 226-228  close() / aclose(): the active HTTP client is
\* closed
Close ==
    /\ self_options.class # "none"
    /\ ActiveClient(_clients).state # "closed"
    /\ _clients' = [_clients EXCEPT ![Len(_clients)].state = "closed"]
    /\ UNCHANGED <<self_options, contexts, created>>
    /\ UNCHANGED <<pagVars, dqVars, sugarVars>>

ClientNext == NewClient \/ Enter \/ Exit \/ Close

ClientSpec == DqSpecInit /\ [][ClientNext]_vars

(***************************************************************************)
(* The stack of HTTP clients: claims                                       *)
(***************************************************************************)
\* C30: once the client is constructed, _clients is never empty and holds
\* one HTTP client more than there are open contexts: the constructed one
\* at the bottom, then the one each open context pushed, in order, each
\* configured from the options; so the active client is the one the
\* innermost open context pushed, every exit hands over to the client that
\* was active before the matching entry, and with no context open the
\* constructed client is active.
C30_ClientStack ==
    self_options.class # "none" =>
        /\ _clients # <<>>
        /\ Len(_clients) = 1 + Len(contexts)
        /\ _clients[1].id = 0
        /\ \A i \in 1..Len(contexts) :
              /\ _clients[i + 1].id = contexts[i].pushed
              /\ _clients[i].id = contexts[i].previous
              /\ _clients[i + 1].class = "httpx." \o self_options.class
        /\ \A i \in 1..Len(_clients) :
              /\ _clients[i].base_url = self_options.base_url \o "/v1/"
              /\ "Authorization" \in DOMAIN _clients[i].headers
                    <=> self_options.auth \notin {None, ""}
              /\ "Authorization" \in DOMAIN _clients[i].headers =>
                    _clients[i].headers["Authorization"] = "Bearer " \o self_options.auth
        /\ ActiveClient(_clients).id =
              IF contexts = <<>> THEN 0 ELSE contexts[Len(contexts)].pushed

\* C30 witness: two contexts are open, the inner one entered after an
\* earlier inner context was exited.
C30_Witness ==
    /\ self_options.auth = "secret_abc"
    /\ Len(contexts) = 2
    /\ Len(_clients) = 3
    /\ _clients[2].id = 1
    /\ _clients[3].id = 3

====
